---- MODULE Spec2Model ----
(***************************************************************************)
(* Model of the COMPAUXLIB / SIREN matching engine: text normalisation,    *)
(* tokenisation, shingling, MinHash signatures and the banded LSH index    *)
(* (training build, persistence, prediction query).                        *)
(*                                                                         *)
(* Strings are sequences of one-character strings, so that splitting,      *)
(* joining, slicing and sorting are computed as the code computes them.    *)
(***************************************************************************)
EXTENDS Integers, Sequences, FiniteSets, TLC

VARIABLES
    \* ---- tools.preprocess_label applied to one label (SpecNormalize)
    text_pc,                \* "raw" before preprocess_label returns, then "done"
    label,                  \* the raw label
    preprocessed_label,     \* the result of preprocess_label
    \* ---- Tokenizer object (SpecTokenizer)
    tok_pc,                 \* position inside Tokenizer.run
    input_df,               \* Preprocessor._input_df: key and preprocessed label
    df_entity_token,        \* Tokenizer.df_entity_token: sequence of rows
    stopwords,              \* Stopwords._stopwords
    \* ---- Shingler object (SpecShingler)
    sh_pc,                  \* position inside Preprocessor._run_shingler
    window,                 \* Shingler._window
    df_shingled,            \* Shingler.df_shingled: sequence of rows
    discarded_token,        \* the 'token' column of the discard table
    df_output,              \* the frame built by create_shingled_entities
    \* ---- one invocation of main.py after the other (Spec), CustomLSH (SpecParams)
    pc,                     \* position inside main.py, "exit0"/"exit1" once it has ended
    task,                   \* args.task
    force_training,         \* args.force_training
    config,                 \* model_parameters: lsh_threshold (twentieths), minhash_num_permutations
    df_token_siren,         \* what the tokenizer returns for the personne_morale table
    df_token_fec,           \* what the tokenizer returns for the COMPAUXLIB of the ediag database
    files,                  \* the names of the tables and files that exist in the storage
    file_discarded_token,   \* content of the discard table: its 'token' column
    file_lsh_index,         \* content of the lsh-index table
    file_metadata,          \* content of the LSH metadata file
    file_hashtables,        \* content of the LSH hashtables table
    df_siren_preprocessed,  \* main.py, train branch
    df_fec,                 \* main.py, predict branch
    lsh_input_df,           \* BaseLSHProcessor._input_df
    minhashes,              \* BaseLSHProcessor._minhashes: the hash values of each row
    lsh,                    \* TrainingLSHProcessor._lsh
    df_query,               \* main.py, predict branch: the rows of the lsh-index table
    \* ---- history
    written,                \* the tables and files this invocation has written
    inserted,               \* the (index, minhash) of every insert into lsh, in order
    indexed,                \* the inserts behind the hashtables that are persisted
    \* ---- one call of Tokenizer.get_token_to_filter (SpecFilter)
    filter_pc,              \* "called", then "returned", "exit1" or "TypeError"
    filter_method,          \* the method argument
    filter_threshold,       \* the threshold argument: its value in 1/10000, int or float
    discarded_table,        \* the frame returned: rows of token and frequency
    \* ---- one Estimator object and its run (SpecEstimator)
    est_pc,                 \* position inside Estimator.run, "KeyError" once it has raised
    estimator_input_df,     \* Estimator._input_df: sequence of rows
    has_jaccard_distance,   \* whether the frame given has a column jaccard_distance_unfiltered
    personne_morale_df,     \* Estimator._personne_morale_df
    fec_coordinates,        \* Estimator._fec_coordinates: None, or the rows of the FEC sites
    limit,                  \* the argument of Estimator.run: None, or a number
    df_fec_unite_legale,    \* Estimator.run: the legal-unit rows once prepared
    siret_to_discard,       \* Estimator.run: the siret of the legal-unit rows
    df_fec_etablissement,   \* Estimator.run: the establishment rows once prepared
    df_ranked,              \* history: the frame as ranked, before it is deduplicated
    df_fec_w_candidates,    \* history: the frame main.py gave the Estimator
    \* ---- the construction of one Estimator or LSH processor (SpecConstruct)
    cons_pc,                \* "new", "constructed", the exception raised, or "run_called"
    cons_class,             \* the class constructed
    cons_value,             \* the input_df argument: its type and, for a frame, its columns
    cons_slots              \* the slots of the object that have been assigned

textVars == <<text_pc, label, preprocessed_label>>
tokVars  == <<tok_pc, input_df, df_entity_token, stopwords>>
shVars   == <<sh_pc, window, df_shingled, discarded_token, df_output>>
runVars  == <<pc, task, force_training, config, df_token_siren, df_token_fec>>
fileVars == <<files, file_discarded_token, file_lsh_index, file_metadata, file_hashtables>>
procVars == <<df_siren_preprocessed, df_fec, lsh_input_df, minhashes, lsh, df_query>>
histVars == <<written, inserted, indexed>>
pipeVars == <<runVars, fileVars, procVars, histVars>>
filtVars == <<filter_pc, filter_method, filter_threshold, discarded_table>>
estVars  == <<est_pc, estimator_input_df, has_jaccard_distance, personne_morale_df,
              fec_coordinates, limit, df_fec_unite_legale, siret_to_discard,
              df_fec_etablissement, df_ranked, df_fec_w_candidates>>
consVars == <<cons_pc, cons_class, cons_value, cons_slots>>
moreVars == <<filtVars, estVars, consVars>>
vars     == <<textVars, tokVars, shVars, pipeVars, moreVars>>

-----------------------------------------------------------------------------
(* Bounds of the model *)

MaxRawLen == 3          \* longest raw label given to preprocess_label
MaxLabelLen == 4        \* longest preprocessed label given to the tokenizer
MaxTokenLen == 5        \* longest token given to the shingler
MaxEntities == 2        \* most legal units in the personne_morale table
MaxPerm == 5            \* longest signature given to the constructor of the index
MaxCandidates == 3      \* most (COMPAUXLIB, candidate) rows given to the estimator

-----------------------------------------------------------------------------
(* Characters.  Ord gives the code point used by sorted() and upper(). *)

Ord(c) ==
    CASE c = "\t" -> 9   [] c = " " -> 32  [] c = "," -> 44  [] c = "-" -> 45
      [] c = "." -> 46   [] c = "<" -> 60  [] c = "A" -> 65  [] c = "B" -> 66
      [] c = "C" -> 67   [] c = "E" -> 69  [] c = "H" -> 72  [] c = "L" -> 76
      [] c = "P" -> 80   [] c = "S" -> 83  [] c = "a" -> 97  [] c = "e" -> 101
      [] c = "s" -> 115  [] c = "é" -> 233 [] c = "ß" -> 223 [] c = "«" -> 171

\* string.punctuation restricted to the characters of the model
Punctuation == {"-", ".", "<", ","}

Whitespace == {" ", "\t"}

-----------------------------------------------------------------------------
(* Generic sequence helpers *)

SeqsUpTo(S, n) == UNION {[1..k -> S] : k \in 0..n}

Range(s) == {s[i] : i \in 1..Len(s)}

RECURSIVE SumOf(_)
RECURSIVE Flatten(_)
Flatten(ss) == IF ss = <<>> THEN <<>> ELSE Head(ss) \o Flatten(Tail(ss))

RECURSIVE SelectRows(_, _)
SelectRows(rows, mask) ==
    IF rows = <<>> THEN <<>>
    ELSE (IF Head(mask) THEN <<Head(rows)>> ELSE <<>>)
         \o SelectRows(Tail(rows), Tail(mask))

\* Python slicing s[a:b] with 0 <= a (0-based, end excluded, clipped)
Slice(s, a, b) == SubSeq(s, a + 1, IF b < Len(s) THEN b ELSE Len(s))

MaxOf(S) == CHOOSE x \in S : \A y \in S : y <= x

RECURSIVE Join(_, _)
\* sep.join(parts)
Join(parts, sep) ==
    IF parts = <<>> THEN <<>>
    ELSE IF Len(parts) = 1 THEN Head(parts)
    ELSE Head(parts) \o sep \o Join(Tail(parts), sep)

RECURSIVE SplitOn(_, _, _)
\* s.split(sep) for a one-character sep: cur is the field being read
SplitOn(s, sep, cur) ==
    IF s = <<>> THEN <<cur>>
    ELSE IF Head(s) = sep THEN <<cur>> \o SplitOn(Tail(s), sep, <<>>)
    ELSE SplitOn(Tail(s), sep, Append(cur, Head(s)))

RECURSIVE SplitWs(_, _)
\* s.split(): runs of whitespace separate, no empty token
SplitWs(s, cur) ==
    IF s = <<>> THEN (IF cur = <<>> THEN <<>> ELSE <<cur>>)
    ELSE IF Head(s) \in Whitespace
         THEN (IF cur = <<>> THEN <<>> ELSE <<cur>>) \o SplitWs(Tail(s), <<>>)
         ELSE SplitWs(Tail(s), Append(cur, Head(s)))

RECURSIVE LexLess(_, _)
\* Python's order on str: by code point, a proper prefix first
LexLess(a, b) ==
    IF b = <<>> THEN FALSE
    ELSE IF a = <<>> THEN TRUE
    ELSE IF Ord(Head(a)) # Ord(Head(b)) THEN Ord(Head(a)) < Ord(Head(b))
    ELSE LexLess(Tail(a), Tail(b))

RECURSIVE SortStrings(_)
\* sorted(list(S)) for a set of strings
SortStrings(S) ==
    IF S = {} THEN <<>>
    ELSE LET m == CHOOSE x \in S : \A y \in S \ {x} : LexLess(x, y)
         IN  <<m>> \o SortStrings(S \ {m})

RECURSIVE SortInts(_)
SortInts(S) ==
    IF S = {} THEN <<>>
    ELSE LET m == CHOOSE x \in S : \A y \in S : x <= y
         IN  <<m>> \o SortInts(S \ {m})

\* the rows of a frame whose grouping key is k, in row order
Group(df, k) == SelectSeq(df, LAMBDA row : row.key = k)

\* the group keys of a frame, in the order groupby() yields them (sorted)
GroupKeys(df) == SortInts({df[i].key : i \in 1..Len(df)})

\* NaN in an object column
NaN == <<"NaN">>

-----------------------------------------------------------------------------
(* tools.py *)

\* unidecode(): transliteration of one character to ASCII
UnidecodeChar(c) ==
    CASE c = "é" -> <<"e">>
      [] c = "ß" -> <<"s", "s">>
      [] c = "«" -> <<"<", "<">>
      [] OTHER   -> <<c>>

Unidecode(s) == Flatten([i \in 1..Len(s) |-> UnidecodeChar(s[i])])

\* str.upper() on ASCII
UpperChar(c) ==
    CASE c = "a" -> "A" [] c = "e" -> "E" [] c = "s" -> "S" [] OTHER -> c

Upper(s) == [i \in 1..Len(s) |-> UpperChar(s[i])]

\* str.translate(mapping_translation): punctuation but the dot becomes a space
Translate(s) ==
    [i \in 1..Len(s) |-> IF s[i] \in Punctuation \ {"."} THEN " " ELSE s[i]]

\* str.replace(c, '')
Remove(s, c) == SelectSeq(s, LAMBDA x : x # c)

\* a plausible slip: punctuation is mapped before the transliteration
preprocess_label_translate_first(raw) ==
    Remove(Remove(Upper(Unidecode(Translate(raw))), "."), "\t")

preprocess_label(raw) ==
    Remove(Remove(Translate(Upper(Unidecode(raw))), "."), "\t")

\* a plausible slip: the window count is not floored at 1
shingle_label_no_floor(token, k) ==
    {Slice(token, i, i + k) : i \in 0..(Len(token) - k)}

shingle_label(token, k) ==
    LET upper_bound == Len(token) - k
        n == IF upper_bound + 1 > 1 THEN upper_bound + 1 ELSE 1
    IN  {Slice(token, i, i + k) : i \in 0..(n - 1)}

tokenize(s) == SplitWs(s, <<>>)

get_label_length(s) == Len(s)

\* other_labels is only tested for membership: a set stands for the list
get_labels_mask(labels, other_labels) ==
    [i \in 1..Len(labels) |-> labels[i] \in other_labels]

\* shingle is the list of the shingle sets of one entity
chain_shingles(shingle) ==
    Join(SortStrings(UNION Range(shingle)), <<",">>)

-----------------------------------------------------------------------------
(* tokenizer.py *)

\* nltk's stopword lists, reduced to the alphabet of the model
LanguagesStopwords == << <<"a">>, <<"a", "s">> >>

instantiate_stopwords(legal_entities) ==
    {preprocess_label(word) : word \in Range(LanguagesStopwords \o legal_entities)}

\* a plausible slip: the length filter is forgotten
get_all_stopwords(sw) == sw

get_multi_character_stopwords(sw) == {word \in sw : Len(word) > 1}

Column(df, name) == [i \in 1..Len(df) |-> df[i][name]]

_tokenize(df) ==
    Flatten([i \in 1..Len(df) |->
        LET tokens == tokenize(df[i].label)
        IN  [j \in 1..Len(tokens) |-> [key |-> df[i].key, token |-> tokens[j]]]])

_remove_multi_characters_stopwords(df, sw) ==
    LET mask == get_labels_mask(Column(df, "token"),
                                get_multi_character_stopwords(sw))
    IN  SelectRows(df, [i \in 1..Len(df) |-> ~mask[i]])

_set_token_length(df) ==
    [i \in 1..Len(df) |->
        [key |-> df[i].key, token |-> df[i].token,
         token_length |-> get_label_length(df[i].token)]]

_set_max_token_length(df) ==
    [i \in 1..Len(df) |->
        [key |-> df[i].key, token |-> df[i].token,
         token_length |-> df[i].token_length,
         max_token_length |->
            MaxOf({df[j].token_length : j \in {n \in 1..Len(df) : df[n].key = df[i].key}})]]

\* a plausible slip: the rows are chosen by their own length
_aggregate_by_token_length(df) ==
    LET single == SelectSeq(df, LAMBDA row : row.token_length = 1)
        keys == GroupKeys(single)
    IN  [g \in 1..Len(keys) |->
            [key |-> keys[g],
             token |-> Flatten(Column(Group(single, keys[g]), "token"))]]

_aggregate_single_characters_entities(df) ==
    LET single == SelectSeq(df, LAMBDA row : row.max_token_length = 1)
        keys == GroupKeys(single)
    IN  [g \in 1..Len(keys) |->
            [key |-> keys[g],
             token |-> Flatten(Column(Group(single, keys[g]), "token"))]]

_preprocess_single_characters_entities(df) ==
    LET with_length == _set_max_token_length(_set_token_length(df))
        single_characters_df == _aggregate_single_characters_entities(with_length)
        multi_characters_df == SelectSeq(with_length, LAMBDA row : row.token_length > 1)
    IN  single_characters_df
        \o [i \in 1..Len(multi_characters_df) |->
               [key |-> multi_characters_df[i].key,
                token |-> multi_characters_df[i].token]]

-----------------------------------------------------------------------------
(* shingler.py and Preprocessor._run_shingler *)

shingle(df, k) ==
    [i \in 1..Len(df) |->
        [key |-> df[i].key, token |-> df[i].token,
         shingled_token |-> shingle_label(df[i].token, k)]]

\* groupby(grouping_key)['shingled_token'].apply(chain_shingles)
_create_shingled_entity(df) ==
    LET keys == GroupKeys(df)
    IN  [g \in 1..Len(keys) |->
            [key |-> keys[g],
             shingled |-> chain_shingles(Column(Group(df, keys[g]), "shingled_token"))]]

\* a plausible slip: the filtered frame replaces the merge (no left join)
create_shingled_entities_inner(df, discarded) ==
    LET discarded_mask == get_labels_mask(Column(df, "token"), discarded)
        df_filtered == SelectRows(df, [i \in 1..Len(df) |-> ~discarded_mask[i]])
        filtered == _create_shingled_entity(df_filtered)
    IN  [i \in 1..Len(filtered) |->
            [key |-> filtered[i].key,
             shingled_unfiltered |->
                (CHOOSE row \in Range(_create_shingled_entity(df)) :
                    row.key = filtered[i].key).shingled,
             shingled_filtered |-> filtered[i].shingled]]

create_shingled_entities(df, discarded) ==
    LET df_preprocessed == _create_shingled_entity(df)
        discarded_mask == get_labels_mask(Column(df, "token"), discarded)
        df_filtered == SelectRows(df, [i \in 1..Len(df) |-> ~discarded_mask[i]])
        df_preprocessed_filtered == _create_shingled_entity(df_filtered)
        right(k) == {row \in Range(df_preprocessed_filtered) : row.key = k}
    IN  IF Len(df_filtered) = 0 THEN <<>>
        ELSE [i \in 1..Len(df_preprocessed) |->
                [key |-> df_preprocessed[i].key,
                 shingled_unfiltered |-> df_preprocessed[i].shingled,
                 shingled_filtered |->
                    IF right(df_preprocessed[i].key) = {} THEN NaN
                    ELSE (CHOOSE row \in right(df_preprocessed[i].key) : TRUE).shingled]]

\* the tail of _run_shingler: fillna of the filtered column by the unfiltered one
fill_filtered(df) ==
    [i \in 1..Len(df) |->
        [key |-> df[i].key,
         shingled_unfiltered |-> df[i].shingled_unfiltered,
         shingled_filtered |->
            IF df[i].shingled_filtered = NaN THEN df[i].shingled_unfiltered
            ELSE df[i].shingled_filtered]]

-----------------------------------------------------------------------------
(* datasketch MinHash as lsh_processor.py uses it.  The 61-bit Mersenne    *)
(* prime, the 32-bit hash range and xxh32 are scaled down to 5 and 3 bits. *)

MersennePrime == 2^5 - 1

MaxHash == 2^3 - 1

\* word.encode('utf-8') on ASCII
Encode(word) == [i \in 1..Len(word) |-> Ord(word[i])]

RECURSIVE HashBytes(_, _)
HashBytes(bytes, acc) ==
    IF bytes = <<>> THEN acc
    ELSE HashBytes(Tail(bytes), (acc * 3 + Head(bytes)) % 2^5)

\* BaseLSHProcessor._hash_function: a deterministic hash of the bytes
_hash_function(element) == HashBytes(element, 0)

\* the permutation (a, b) of position i, drawn once from the fixed seed
PermutationA(i) == 1 + ((2 * i) % (MersennePrime - 1))
PermutationB(i) == (30 * i) % MersennePrime

MinOf(S) == CHOOSE x \in S : \A y \in S : x <= y

\* a plausible slip: the last shingle given overwrites the value instead of lowering it
MinHashLastWins(words, num_perm) ==
    [i \in 1..num_perm |->
        IF words = <<>> THEN MaxHash
        ELSE ((PermutationA(i) * _hash_function(Encode(words[Len(words)])) + PermutationB(i))
                 % MersennePrime) % (MaxHash + 1)]

\* MinHash(num_perm, hashfunc).update_batch(words), then LeanMinHash: the hash values
MinHash(words, num_perm) ==
    [i \in 1..num_perm |->
        MinOf({MaxHash} \cup
              {((PermutationA(i) * _hash_function(Encode(words[w])) + PermutationB(i))
                   % MersennePrime) % (MaxHash + 1) : w \in 1..Len(words)})]

-----------------------------------------------------------------------------
(* datasketch MinHashLSH as custom_lsh.py extends it *)

\* thresholds are counted in twentieths, probabilities in 1/Scale; the areas under the
\* probability curve are summed over GridCells midpoints (the library takes steps of 0.001)
ThresholdDen == 20
Scale == 10000
GridCells == 100

RECURSIVE PowScaled(_, _)
\* s ** r for s in 1/Scale
PowScaled(s, r) == IF r = 0 THEN Scale ELSE (PowScaled(s, r - 1) * s) \div Scale

\* 1 - (1 - s ** r) ** b
CollisionProbability(s, b, r) == Scale - PowScaled(Scale - PowScaled(s, r), b)

\* the midpoint of grid cell i
CellMid(i) == ((2 * i + 1) * Scale) \div (2 * GridCells)

\* the error of cell i: a false positive below the threshold, a false negative above it
CellError(i, threshold, b, r) ==
    IF i < (threshold * GridCells) \div ThresholdDen
    THEN CollisionProbability(CellMid(i), b, r)
    ELSE Scale - CollisionProbability(CellMid(i), b, r)

RECURSIVE SumCells(_, _, _, _, _)
\* the sum of the errors of the cells lo..hi, both halves with equal weights
SumCells(lo, hi, threshold, b, r) ==
    IF lo = hi THEN CellError(lo, threshold, b, r)
    ELSE LET mid == (lo + hi) \div 2
         IN  SumCells(lo, mid, threshold, b, r) + SumCells(mid + 1, hi, threshold, b, r)

ParamError(threshold, b, r) == SumCells(0, GridCells - 1, threshold, b, r)

\* the candidates in the order of the two nested loops
ParamCandidates(num_perm) ==
    Flatten([b \in 1..num_perm |->
                [r \in 1..(num_perm \div b) |-> [b |-> b, r |-> r]]])

RECURSIVE ArgMinFirst(_, _, _, _)
\* the first candidate of strictly smallest error
ArgMinFirst(cands, threshold, best, best_error) ==
    IF cands = <<>> THEN best
    ELSE LET e == ParamError(threshold, Head(cands).b, Head(cands).r)
         IN  IF e < best_error
             THEN ArgMinFirst(Tail(cands), threshold, Head(cands), e)
             ELSE ArgMinFirst(Tail(cands), threshold, best, best_error)

\* a plausible slip: one band more than the signature holds
_optimal_param_overrun(threshold, num_perm) == [b |-> num_perm + 1, r |-> 1]

_optimal_param(threshold, num_perm) ==
    ArgMinFirst(ParamCandidates(num_perm), threshold, [b |-> 0, r |-> 0],
                GridCells * Scale + 1)

\* numpy uint64: the width of one hash value in bytes
ItemSize == 8

\* the little-endian bytes of one hash value (every value here is below 2^16)
LittleEndian(v) ==
    [i \in 1..ItemSize |-> IF i = 1 THEN v % 256
                           ELSE IF i = 2 THEN (v \div 256) % 256 ELSE 0]

Reverse(s) == [i \in 1..Len(s) |-> s[Len(s) + 1 - i]]

\* MinHashLSH._H: bytes(hs.byteswap().data)
_H(hs) == Flatten([i \in 1..Len(hs) |-> Reverse(LittleEndian(hs[i]))])

\* str(n) for an integer
RECURSIVE Digits(_)
Digits(n) ==
    LET d == <<"0", "1", "2", "3", "4", "5", "6", "7", "8", "9">>
    IN  IF n < 10 THEN <<d[n + 1]>> ELSE Digits(n \div 10) \o <<d[(n % 10) + 1]>>

Str(n) == IF n < 0 THEN <<"-">> \o Digits(-n) ELSE Digits(n)

DigitValue(c) ==
    CASE c = "0" -> 0 [] c = "1" -> 1 [] c = "2" -> 2 [] c = "3" -> 3 [] c = "4" -> 4
      [] c = "5" -> 5 [] c = "6" -> 6 [] c = "7" -> 7 [] c = "8" -> 8 [] c = "9" -> 9

RECURSIVE ParseDigits(_, _)
ParseDigits(s, acc) ==
    IF s = <<>> THEN acc ELSE ParseDigits(Tail(s), acc * 10 + DigitValue(Head(s)))

\* int(s) for the decimal strings str() writes
ParseInt(s) == IF Head(s) = "-" THEN -ParseDigits(Tail(s), 0) ELSE ParseDigits(s, 0)

\* the index before its construction
NoLSH ==
    [h |-> 0, b |-> 0, r |-> 0, hashranges |-> <<>>, hashtables |-> <<>>, keys |-> <<>>,
     metadata |-> [nb_permutations |-> 0, nb_bands |-> 0, hashranges |-> <<>>],
     hashtable_df |-> <<>>]

\* MinHashLSH.__init__ refuses these arguments; whether one band only is refused
\* depends on the release of the library
InitRefuses(threshold, num_perm) ==
    threshold < 0 \/ threshold > ThresholdDen \/ num_perm < 2

\* CustomLSH.__init__: band i holds the positions [i*r, (i+1)*r)
NewLSH(threshold, num_perm) ==
    LET params == _optimal_param(threshold, num_perm)
    IN  [h |-> num_perm, b |-> params.b, r |-> params.r,
         hashranges |-> [i \in 1..params.b |-> <<(i - 1) * params.r, i * params.r>>],
         hashtables |-> [i \in 1..params.b |-> <<>>],
         keys |-> <<>>,
         metadata |-> NoLSH.metadata,
         hashtable_df |-> <<>>]

\* a plausible slip: a bucket keeps the last id only
BucketInsertOverwrite(hashtable, H, key) ==
    IF \E n \in 1..Len(hashtable) : hashtable[n].signatures = H
    THEN [n \in 1..Len(hashtable) |->
            IF hashtable[n].signatures = H
            THEN [hashtable[n] EXCEPT !.ids = {key}]
            ELSE hashtable[n]]
    ELSE Append(hashtable, [signatures |-> H, ids |-> {key}])

\* DictSetStorage.insert: a bucket keeps its ids as a set, buckets in insertion order
BucketInsert(hashtable, H, key) ==
    IF \E n \in 1..Len(hashtable) : hashtable[n].signatures = H
    THEN [n \in 1..Len(hashtable) |->
            IF hashtable[n].signatures = H
            THEN [hashtable[n] EXCEPT !.ids = @ \cup {key}]
            ELSE hashtable[n]]
    ELSE Append(hashtable, [signatures |-> H, ids |-> {key}])

\* MinHashLSH.insert refuses a signature of another length and a key it already holds
InsertRefuses(self, key, minhash) ==
    Len(minhash) # self.h \/ \E n \in 1..Len(self.keys) : self.keys[n].key = key

\* a plausible slip: only the first band is filled
insert_first_band_only(self, key, minhash) ==
    LET Hs == [i \in 1..self.b |->
                 _H(Slice(minhash, self.hashranges[i][1], self.hashranges[i][2]))]
    IN  [self EXCEPT !.keys = Append(@, [key |-> key, Hs |-> Hs]),
                    !.hashtables = [i \in 1..self.b |->
                        IF i = 1 THEN BucketInsert(@[i], Hs[i], key) ELSE @[i]]]

\* MinHashLSH.insert
insert(self, key, minhash) ==
    LET Hs == [i \in 1..self.b |->
                 _H(Slice(minhash, self.hashranges[i][1], self.hashranges[i][2]))]
    IN  [self EXCEPT !.keys = Append(@, [key |-> key, Hs |-> Hs]),
                    !.hashtables = [i \in 1..self.b |-> BucketInsert(@[i], Hs[i], key)]]

\* CustomLSH._hashtable_as_dataframe; a set of small integers is walked in increasing order
_hashtable_as_dataframe(hashtable, bucket) ==
    [n \in 1..Len(hashtable) |->
        [signatures |-> hashtable[n].signatures,
         candidates |->
            LET ids == SortInts(hashtable[n].ids)
            IN  Join([j \in 1..Len(ids) |-> Str(ids[j])], <<",">>),
         bucket |-> bucket]]

\* CustomLSH._prepare_metadata: the key hashrange_<i> is hashranges[i + 1]
\* a plausible slip: the end of a range is stored as its last position
_prepare_metadata_inclusive(self) ==
    [nb_permutations |-> self.h, nb_bands |-> self.b,
     hashranges |-> [i \in 1..self.b |->
                        <<self.hashranges[i][1], self.hashranges[i][2] - 1>>]]

_prepare_metadata(self) ==
    [nb_permutations |-> self.h, nb_bands |-> self.b,
     hashranges |-> [i \in 1..self.b |-> self.hashranges[i]]]

prepare_data_to_store(self) ==
    [self EXCEPT !.metadata = _prepare_metadata(self),
                !.hashtable_df = Flatten([i \in 1..self.b |->
                                    _hashtable_as_dataframe(self.hashtables[i], i - 1)])]

-----------------------------------------------------------------------------
(* the frames of the training and of the prediction pipeline *)

\* DataFrame.drop_duplicates(subset): subset holds the subset's value of each row, the
\* first row of each value is kept
DropDuplicates(df, subset) ==
    SelectRows(df, [i \in 1..Len(df) |-> \A j \in 1..(i - 1) : subset[j] # subset[i]])

\* Series.sum() of a column of counts
SumOf(column) == IF column = <<>> THEN 0 ELSE Head(column) + SumOf(Tail(column))

\* Tokenizer._get_tokens_frequencies: the rows of each token, tokens in sorted order; the
\* frequency is the count of the token over the sum of the counts, kept as the two
\* numbers of the fraction (the sum is the same in every row)
_get_tokens_frequencies(df) ==
    LET tokens == SortStrings(Range(Column(df, "token")))
        count == [n \in 1..Len(tokens) |->
                     Cardinality({i \in 1..Len(df) : df[i].token = tokens[n]})]
    IN  [n \in 1..Len(tokens) |->
            [token |-> tokens[n],
             frequency |-> [count |-> count[n], sum |-> SumOf(count)]]]

\* SortInts on a bag of counts: equal counts are kept apart by their rank
RankedCounts(ranking) == {ranking[n].frequency.count * (Len(ranking) + 1) + n : n \in 1..Len(ranking)}

\* Tokenizer.get_token_to_filter(), method 'quantile', threshold 0.9999: the tokens discarded
get_token_to_filter(df) ==
    LET ranking == _get_tokens_frequencies(df)
        ranked == SortInts(RankedCounts(ranking))
        counts == [n \in 1..Len(ranked) |-> ranked[n] \div (Len(ranking) + 1)]
        position == 9999 * (Len(counts) - 1)
        lo == position \div 10000 + 1
        hi == IF lo < Len(counts) THEN lo + 1 ELSE lo
        quantile == counts[lo] * 10000 + (counts[hi] - counts[lo]) * (position % 10000)
    IN  IF ranking = <<>> THEN {}
        ELSE {ranking[n].token : n \in {m \in 1..Len(ranking) :
                                          ranking[m].frequency.count * 10000 >= quantile}}

\* Preprocessor._run_shingler
_run_shingler(df_token, discarded, k) ==
    LET output == create_shingled_entities(shingle(df_token, k), discarded)
    IN  IF Len(output) = 0 THEN output ELSE fill_filtered(output)

\* TrainingPreprocessor._set_lsh_index: ngroup() numbers the sorted distinct chains
_set_lsh_index(shingled_df) ==
    LET groups == SortStrings(Range(Column(shingled_df, "shingled_filtered")) \ {NaN})
    IN  [i \in 1..Len(shingled_df) |->
            [key |-> shingled_df[i].key,
             shingled_unfiltered |-> shingled_df[i].shingled_unfiltered,
             shingled_filtered |->
                IF shingled_df[i].shingled_filtered = NaN THEN <<>>
                ELSE shingled_df[i].shingled_filtered,
             lsh_index |->
                IF shingled_df[i].shingled_filtered = NaN THEN -1
                ELSE (CHOOSE n \in 1..Len(groups) :
                         groups[n] = shingled_df[i].shingled_filtered) - 1]]

\* TrainingLSHProcessor._preprocess
TrainingPreprocess(df) ==
    LET indexed_rows == SelectSeq(df, LAMBDA row : row.lsh_index # -1)
        unique == DropDuplicates(indexed_rows, Column(indexed_rows, "lsh_index"))
        \* dropna(): str.split leaves NaN as it is, and the other columns are numbers
        complete == SelectSeq(unique, LAMBDA row : /\ row.shingled_filtered # NaN
                                                   /\ row.shingled_unfiltered # NaN)
    IN  [i \in 1..Len(complete) |->
            [complete[i] EXCEPT !.shingled_filtered = SplitOn(@, ",", <<>>)]]

\* PredictionLSHProcessor._preprocess
PredictionPreprocess(df) ==
    LET complete == SelectSeq(df, LAMBDA row : row.shingled_filtered # NaN
                                             /\ row.shingled_unfiltered # NaN)
    IN  [i \in 1..Len(complete) |->
            [key |-> complete[i].key,
             shingled_unfiltered |-> SplitOn(complete[i].shingled_unfiltered, ",", <<>>),
             shingled_filtered |-> SplitOn(complete[i].shingled_filtered, ",", <<>>)]]

\* a plausible slip: the signatures are not in the order of the rows
_create_minhashes_misaligned(df, num_perm) ==
    [i \in 1..Len(df) |-> MinHash(df[Len(df) + 1 - i].shingled_filtered, num_perm)]

\* BaseLSHProcessor._create_minhashes
_create_minhashes(df, num_perm) ==
    [i \in 1..Len(df) |-> MinHash(df[i].shingled_filtered, num_perm)]

\* a plausible slip: the query slice is serialized in the machine's byte order
_get_bytes_hashvalues_native(minhash, hashranges) ==
    LET hs == Slice(minhash, hashranges[1], hashranges[2])
    IN  Flatten([i \in 1..Len(hs) |-> LittleEndian(hs[i])])

\* PredictionLSHProcessor._get_bytes_hashvalues
_get_bytes_hashvalues(minhash, hashranges) ==
    _H(Slice(minhash, hashranges[1], hashranges[2]))

\* PredictionLSHProcessor.run, lines 253-257
SplittedMinhashes(minhashes_, metadata) ==
    [i \in 1..Len(minhashes_) |->
        [bucket \in 1..metadata.nb_bands |->
            _get_bytes_hashvalues(minhashes_[i], metadata.hashranges[bucket])]]

\* PredictionLSHProcessor._expand_buckets: melt() stacks the bucket columns
_expand_buckets(df, nb_bands, splitted) ==
    Flatten([bucket \in 1..nb_bands |->
        [i \in 1..Len(df) |->
            [key |-> df[i].key,
             shingled_unfiltered |-> df[i].shingled_unfiltered,
             shingled_filtered |-> df[i].shingled_filtered,
             bucket |-> ParseInt(Str(bucket - 1)),
             signatures |-> splitted[i][bucket]]]])

\* the LEFT JOIN of _prepare_query_for_signature, then dropna(subset='candidates')
QueryCandidatesJoin(df, hashtable) ==
    Flatten([i \in 1..Len(df) |->
        LET matches == SelectSeq(hashtable, LAMBDA row : row.bucket = df[i].bucket
                                                     /\ row.signatures = df[i].signatures)
        IN  [m \in 1..Len(matches) |->
                [key |-> df[i].key,
                 shingled_unfiltered |-> df[i].shingled_unfiltered,
                 shingled_filtered |-> df[i].shingled_filtered,
                 candidates |-> matches[m].candidates]]])

\* PredictionLSHProcessor._preprocess_output_dataframe
_preprocess_output_dataframe(df) ==
    LET exploded ==
            Flatten([i \in 1..Len(df) |->
                LET ids == SplitOn(df[i].candidates, ",", <<>>)
                IN  [j \in 1..Len(ids) |->
                        [key |-> df[i].key,
                         shingled_unfiltered |-> df[i].shingled_unfiltered,
                         shingled_filtered |-> df[i].shingled_filtered,
                         candidates |-> ids[j]]]])
        unique == DropDuplicates(exploded, [i \in 1..Len(exploded) |->
                                            <<exploded[i].key, exploded[i].candidates>>])
    IN  [i \in 1..Len(unique) |->
            [key |-> unique[i].key,
             shingled_unfiltered |-> unique[i].shingled_unfiltered,
             shingled_filtered |-> unique[i].shingled_filtered,
             candidate_lsh_index |->
                IF unique[i].candidates = <<>> THEN -1 ELSE ParseInt(unique[i].candidates)]]

-----------------------------------------------------------------------------
(* Idle values: each specification leaves the objects it does not run in   *)
(* their state before construction.                                        *)

TextIdle == text_pc = "idle" /\ label = <<>> /\ preprocessed_label = <<>>

TokIdle ==
    tok_pc = "idle" /\ input_df = <<>> /\ df_entity_token = <<>> /\ stopwords = {}

ShIdle ==
    /\ sh_pc = "idle" /\ window = 0 /\ df_shingled = <<>>
    /\ discarded_token = {} /\ df_output = <<>>

NoMetadata == [nb_permutations |-> 0, nb_bands |-> 0, hashranges |-> <<>>]

\* no table and no file in the storage
NoFiles ==
    /\ files = {} /\ file_discarded_token = {} /\ file_lsh_index = <<>>
    /\ file_metadata = NoMetadata /\ file_hashtables = <<>>

\* a process that has built no frame and no index yet
NoProcess ==
    /\ df_siren_preprocessed = <<>> /\ df_fec = <<>> /\ lsh_input_df = <<>>
    /\ minhashes = <<>> /\ lsh = NoLSH /\ df_query = <<>>

NoHistory == written = {} /\ inserted = <<>> /\ indexed = <<>>

PipeIdle ==
    /\ pc = "idle" /\ task = "none" /\ force_training = FALSE
    /\ config = [lsh_threshold |-> 0, minhash_num_permutations |-> 0]
    /\ df_token_siren = <<>> /\ df_token_fec = <<>>
    /\ NoFiles /\ NoProcess /\ NoHistory

FiltIdle ==
    /\ filter_pc = "idle" /\ filter_method = "none"
    /\ filter_threshold = [value |-> 0, is_int |-> TRUE] /\ discarded_table = <<>>

\* an optional argument: None, or a value
None == [none |-> TRUE]

Some(v) == [none |-> FALSE, value |-> v]

EstIdle ==
    /\ est_pc = "idle" /\ estimator_input_df = <<>> /\ has_jaccard_distance = FALSE
    /\ personne_morale_df = <<>> /\ fec_coordinates = None /\ limit = None
    /\ df_fec_unite_legale = <<>> /\ siret_to_discard = {} /\ df_fec_etablissement = <<>>
    /\ df_ranked = <<>> /\ df_fec_w_candidates = <<>>

ConsIdle ==
    /\ cons_pc = "idle" /\ cons_class = "none"
    /\ cons_value = [type |-> "NoneType", columns |-> {}] /\ cons_slots = {}

MoreIdle == FiltIdle /\ EstIdle /\ ConsIdle

-----------------------------------------------------------------------------
(* SpecNormalize: preprocess_label on one raw label *)

RawChars == {"a", "B", "é", "ß", "«", "-", ".", "\t", " "}

InitNormalize ==
    /\ text_pc = "raw"
    /\ label \in SeqsUpTo(RawChars, MaxRawLen)
    /\ preprocessed_label = <<>>
    /\ TokIdle /\ ShIdle /\ PipeIdle /\ MoreIdle

PreprocessLabel ==
    /\ text_pc = "raw"
    /\ preprocessed_label' = preprocess_label(label)
    /\ text_pc' = "done"
    /\ UNCHANGED <<label, tokVars, shVars, pipeVars, moreVars>>

NextNormalize == PreprocessLabel

SpecNormalize == InitNormalize /\ [][NextNormalize]_vars

-----------------------------------------------------------------------------
(* SpecTokenizer: Tokenizer.run on a frame of preprocessed labels *)

TokChars == {"A", "S", " "}

\* the labels of the second row
SecondLabels == {<<>>, <<"S">>, <<"A", "S">>, <<"S", " ", "A", "S">>,
                 <<"A", " ", "S", "A">>}

\* the legal_entities argument of run(): legal forms from the configuration
LegalEntitiesChoices ==
    { <<>>, << <<"S", ".", "A", ".">> >>, << <<"s", "a">>, <<"S", "-", "A">> >> }

Keys == {1, 2}

TokenizerInputs ==
    { << [key |-> 1, label |-> l1], [key |-> k2, label |-> l2] >> :
        l1 \in SeqsUpTo(TokChars, MaxLabelLen), k2 \in Keys, l2 \in SecondLabels }

InitTokenizer ==
    /\ tok_pc = "start"
    /\ input_df \in TokenizerInputs
    /\ df_entity_token = input_df          \* set_dataset_for_tokenizer
    /\ stopwords = {}
    /\ TextIdle /\ ShIdle /\ PipeIdle /\ MoreIdle

Tokenize ==
    /\ tok_pc = "start"
    /\ df_entity_token' = _tokenize(df_entity_token)
    /\ tok_pc' = "tokenized"
    /\ UNCHANGED <<input_df, stopwords, textVars, shVars, pipeVars, moreVars>>

SetStopwords ==
    /\ tok_pc = "tokenized"
    /\ \E legal_entities \in LegalEntitiesChoices :
          stopwords' = instantiate_stopwords(legal_entities)
    /\ tok_pc' = "stopwords_set"
    /\ UNCHANGED <<input_df, df_entity_token, textVars, shVars, pipeVars, moreVars>>

RemoveMultiCharactersStopwords ==
    /\ tok_pc = "stopwords_set"
    /\ df_entity_token' = _remove_multi_characters_stopwords(df_entity_token, stopwords)
    /\ tok_pc' = "destopped"
    /\ UNCHANGED <<input_df, stopwords, textVars, shVars, pipeVars, moreVars>>

PreprocessSingleCharactersEntities ==
    /\ tok_pc = "destopped"
    /\ df_entity_token' = _preprocess_single_characters_entities(df_entity_token)
    /\ tok_pc' = "done"
    /\ UNCHANGED <<input_df, stopwords, textVars, shVars, pipeVars, moreVars>>

NextTokenizer ==
    \/ Tokenize
    \/ SetStopwords
    \/ RemoveMultiCharactersStopwords
    \/ PreprocessSingleCharactersEntities

SpecTokenizer == InitTokenizer /\ [][NextTokenizer]_vars

-----------------------------------------------------------------------------
(* SpecShingler: Preprocessor._run_shingler on a frame of tokens *)

DefaultWindow == 4

Windows == {1, 2, DefaultWindow}

ShingleChars == {"A", "B"}

ShingleTokens == SeqsUpTo(ShingleChars, MaxTokenLen) \ {<<>>}

SecondTokens == {<<"B">>, <<"A", "B">>, <<"A", "B", "A", "B", "B">>}

\* what Tokenizer.run can return: no empty token, and an entity with several
\* tokens has only tokens longer than one character
IsTokenizerOutput(df) ==
    \A i \in 1..Len(df) :
        /\ Len(df[i].token) >= 1
        /\ Len(Group(df, df[i].key)) > 1 => Len(df[i].token) > 1

ShinglerInputs ==
    { df \in { << [key |-> 1, token |-> t1], [key |-> k2, token |-> t2] >> :
                 t1 \in ShingleTokens, k2 \in Keys, t2 \in SecondTokens } :
        IsTokenizerOutput(df) }

InitShingler ==
    /\ tok_pc = "done"
    /\ input_df = <<>>
    /\ df_entity_token \in ShinglerInputs
    /\ stopwords = {}
    /\ sh_pc = "start"
    /\ window \in Windows
    /\ df_shingled = <<>>
    /\ discarded_token \in SUBSET Range(Column(df_entity_token, "token"))
    /\ df_output = <<>>
    /\ TextIdle /\ PipeIdle /\ MoreIdle

SetDatasetForShingling ==
    /\ sh_pc = "start"
    /\ df_shingled' = df_entity_token
    /\ sh_pc' = "dataset"
    /\ UNCHANGED <<window, discarded_token, df_output, textVars, tokVars, pipeVars, moreVars>>

Shingle ==
    /\ sh_pc = "dataset"
    /\ df_shingled' = shingle(df_shingled, window)
    /\ sh_pc' = "shingled"
    /\ UNCHANGED <<window, discarded_token, df_output, textVars, tokVars, pipeVars, moreVars>>

CreateShingledEntities ==
    /\ sh_pc = "shingled"
    /\ df_output' = create_shingled_entities(df_shingled, discarded_token)
    /\ sh_pc' = "created"
    /\ UNCHANGED <<window, df_shingled, discarded_token, textVars, tokVars, pipeVars, moreVars>>

\* the end of _run_shingler: an empty frame is returned as it is
RunShinglerReturn ==
    /\ sh_pc = "created"
    /\ df_output' = IF Len(df_output) = 0 THEN df_output ELSE fill_filtered(df_output)
    /\ sh_pc' = "returned"
    /\ UNCHANGED <<window, df_shingled, discarded_token, textVars, tokVars, pipeVars, moreVars>>

NextShingler ==
    \/ SetDatasetForShingling
    \/ Shingle
    \/ CreateShingledEntities
    \/ RunShinglerReturn

SpecShingler == InitShingler /\ [][NextShingler]_vars

-----------------------------------------------------------------------------
(* Spec: invocations of main.py, one after the other, on one storage: the   *)
(* training task builds and persists the index, the prediction task reads  *)
(* it.  The frames start from what the tokenizer returns.                  *)

ALPHA == <<"A", "L", "P", "H", "A">>
ALPHB == <<"A", "L", "P", "H", "B">>
SAS == <<"S", "A", "S">>

\* the tokens of one legal unit of the personne_morale table
EntityTokens == { <<ALPHA, SAS>>, <<ALPHB, SAS>>, <<ALPHA, ALPHB>>, <<SAS>>, <<ALPHA, SAS, SAS>> }

\* the rows of the tokenizer for the entities es, keyed by their position
TokenRows(es) ==
    Flatten([i \in 1..Len(es) |-> [j \in 1..Len(es[i]) |-> [key |-> i, token |-> es[i][j]]]])

Corpora == {TokenRows(es) : es \in SeqsUpTo(EntityTokens, MaxEntities) \ {<<>>}}

\* the COMPAUXLIB of one ediag database; the empty frame is a database without any, or
\* one whose labels hold nothing but stopwords
FecBatches ==
    { <<>>,
      TokenRows(<< <<ALPHA, SAS>> >>),
      TokenRows(<< <<SAS>> >>),
      TokenRows(<< <<ALPHB>>, <<SAS>> >>),
      TokenRows(<< <<ALPHA, ALPHB>>, <<ALPHA>> >>) }

\* lsh_threshold in twentieths and minhash_num_permutations of the configuration file
Configs ==
    { [lsh_threshold |-> t, minhash_num_permutations |-> 4] : t \in {8, 10, 14, 30} }

IndexArtifacts == {"lsh_index", "metadata", "hashtables"}

OutputTables == {"compauxlib_siren", "compauxlib_siren_debug"}

Init ==
    /\ TextIdle /\ TokIdle /\ ShIdle /\ MoreIdle
    /\ pc = "idle" /\ task = "none" /\ force_training = FALSE
    /\ config \in Configs
    /\ \/ files = {"personne_morale"} /\ df_token_siren \in Corpora
       \/ files = {} /\ df_token_siren = <<>>
    /\ df_token_fec = <<>>
    /\ file_discarded_token = {} /\ file_lsh_index = <<>>
    /\ file_metadata = NoMetadata /\ file_hashtables = <<>>
    /\ NoProcess /\ NoHistory

\* a new process: nothing of the process before is left but the storage
NewProcess ==
    /\ df_siren_preprocessed' = <<>> /\ df_fec' = <<>> /\ lsh_input_df' = <<>>
    /\ minhashes' = <<>> /\ lsh' = NoLSH /\ df_query' = <<>>
    /\ written' = {} /\ inserted' = <<>>

Ended == pc \in {"idle", "exit0", "exit1"}

\* sys.exit(code) or an exception that nothing catches
Exit(code) ==
    /\ pc' = code
    /\ UNCHANGED <<task, force_training, config, df_token_siren, df_token_fec,
                   fileVars, procVars, histVars>>

\* main.py --task train [--force_training]
InvokeTrain ==
    /\ Ended
    /\ task' = "train"
    /\ force_training' \in BOOLEAN
    /\ pc' = "train_check"
    /\ df_token_fec' = <<>>
    /\ NewProcess
    /\ UNCHANGED <<config, df_token_siren, fileVars, indexed, textVars, tokVars, shVars, moreVars>>

\* main.py lines 36-39: the lsh-index table exists, nothing is done
TrainSkip ==
    /\ pc = "train_check" /\ ~force_training /\ "lsh_index" \in files
    /\ Exit("exit0")
    /\ UNCHANGED <<textVars, tokVars, shVars, moreVars>>

\* main.py lines 40-42
TrainNoTable ==
    /\ pc = "train_check" /\ ~force_training
    /\ "lsh_index" \notin files /\ "personne_morale" \notin files
    /\ Exit("exit1")
    /\ UNCHANGED <<textVars, tokVars, shVars, moreVars>>

\* main.py lines 43-51: the table is read; a forced run finds out here that it is missing
TrainLoad ==
    /\ pc = "train_check"
    /\ force_training \/ "lsh_index" \notin files
    /\ IF "personne_morale" \in files
       THEN /\ pc' = "preprocess"
            /\ UNCHANGED <<task, force_training, config, df_token_siren, df_token_fec,
                           fileVars, procVars, histVars>>
       ELSE force_training /\ Exit("exit1")
    /\ UNCHANGED <<textVars, tokVars, shVars, moreVars>>

\* TrainingPreprocessor.run up to the discard table (the tokenizer has run)
ExtractTokenToFilter ==
    /\ pc = "preprocess"
    /\ file_discarded_token' = get_token_to_filter(df_token_siren)
    /\ files' = files \cup {"discarded_token"}
    /\ written' = written \cup {"discarded_token"}
    /\ pc' = "shingle"
    /\ UNCHANGED <<task, force_training, config, df_token_siren, df_token_fec,
                   file_lsh_index, file_metadata, file_hashtables, procVars,
                   inserted, indexed, textVars, tokVars, shVars, moreVars>>

\* TrainingPreprocessor.run from the shingler on: _set_lsh_index finds no column to
\* group by in the frame create_shingled_entities returns when every token is discarded
TrainingShingle ==
    /\ pc = "shingle"
    /\ LET output == _run_shingler(df_token_siren, get_token_to_filter(df_token_siren),
                                   DefaultWindow)
       IN  IF Len(output) = 0
           THEN Exit("exit1")
           ELSE /\ df_siren_preprocessed' = _set_lsh_index(output)
                /\ pc' = "store_lsh_index"
                /\ UNCHANGED <<task, force_training, config, df_token_siren, df_token_fec,
                               fileVars, df_fec, lsh_input_df, minhashes, lsh, df_query,
                               histVars>>
    /\ UNCHANGED <<textVars, tokVars, shVars, moreVars>>

\* main.py lines 65-77: the lsh-index table is written, the LSH processor is constructed
StoreLshIndex ==
    /\ pc = "store_lsh_index"
    /\ file_lsh_index' = df_siren_preprocessed
    /\ files' = files \cup {"lsh_index"}
    /\ written' = written \cup {"lsh_index"}
    /\ lsh_input_df' = df_siren_preprocessed
    /\ pc' = "lsh_preprocess"
    /\ UNCHANGED <<task, force_training, config, df_token_siren, df_token_fec,
                   file_discarded_token, file_metadata, file_hashtables,
                   df_siren_preprocessed, df_fec, minhashes, lsh, df_query,
                   inserted, indexed, textVars, tokVars, shVars, moreVars>>

\* TrainingLSHProcessor.run lines 168-169
TrainingLshPreprocess ==
    /\ pc = "lsh_preprocess"
    /\ lsh_input_df' = TrainingPreprocess(lsh_input_df)
    /\ minhashes' = _create_minhashes(lsh_input_df', config.minhash_num_permutations)
    /\ pc' = "construct"
    /\ UNCHANGED <<task, force_training, config, df_token_siren, df_token_fec, fileVars,
                   df_siren_preprocessed, df_fec, lsh, df_query, histVars,
                   textVars, tokVars, shVars, moreVars>>

\* TrainingLSHProcessor.run lines 170-171; a release of the library that refuses one
\* band only never gets here with b = 1, an older one does
ConstructLSH ==
    /\ pc = "construct"
    /\ ~InitRefuses(config.lsh_threshold, config.minhash_num_permutations)
    /\ lsh' = NewLSH(config.lsh_threshold, config.minhash_num_permutations)
    /\ inserted' = <<>>
    /\ pc' = "update"
    /\ UNCHANGED <<task, force_training, config, df_token_siren, df_token_fec, fileVars,
                   df_siren_preprocessed, df_fec, lsh_input_df, minhashes, df_query,
                   written, indexed, textVars, tokVars, shVars, moreVars>>

\* the ValueError of MinHashLSH.__init__
ConstructLSHFails ==
    /\ pc = "construct"
    /\ \/ InitRefuses(config.lsh_threshold, config.minhash_num_permutations)
       \/ _optimal_param(config.lsh_threshold, config.minhash_num_permutations).b < 2
    /\ Exit("exit1")
    /\ UNCHANGED <<textVars, tokVars, shVars, moreVars>>

\* one turn of the loop of _update_lsh_index: the next (index, minhash) of the zip
InsertNext ==
    /\ pc = "update"
    /\ Len(lsh.keys) < Len(minhashes)
    /\ LET n == Len(lsh.keys) + 1
           index == lsh_input_df[n].lsh_index
       IN  IF InsertRefuses(lsh, index, minhashes[n])
           THEN Exit("exit1")
           ELSE /\ lsh' = insert(lsh, index, minhashes[n])
                /\ inserted' = Append(inserted, [index |-> index, minhash |-> minhashes[n]])
                /\ UNCHANGED <<runVars, fileVars, df_siren_preprocessed, df_fec,
                               lsh_input_df, minhashes, df_query, written, indexed>>
    /\ UNCHANGED <<textVars, tokVars, shVars, moreVars>>

\* a plausible slip: the export does not wait for the end of the loop
PrepareDataToStoreEarly ==
    /\ pc = "update"
    /\ Len(lsh.keys) >= 1
    /\ lsh' = prepare_data_to_store(lsh)
    /\ pc' = "store_metadata"
    /\ UNCHANGED <<task, force_training, config, df_token_siren, df_token_fec, fileVars,
                   df_siren_preprocessed, df_fec, lsh_input_df, minhashes, df_query,
                   histVars, textVars, tokVars, shVars, moreVars>>

\* the loop has ended: CustomLSH.prepare_data_to_store (run line 174)
PrepareDataToStore ==
    /\ pc = "update"
    /\ Len(lsh.keys) = Len(minhashes)
    /\ lsh' = prepare_data_to_store(lsh)
    /\ pc' = "store_metadata"
    /\ UNCHANGED <<task, force_training, config, df_token_siren, df_token_fec, fileVars,
                   df_siren_preprocessed, df_fec, lsh_input_df, minhashes, df_query,
                   histVars, textVars, tokVars, shVars, moreVars>>

\* _store_lsh_data lines 149-154: json.dump of the metadata
StoreMetadata ==
    /\ pc = "store_metadata"
    /\ file_metadata' = lsh.metadata
    /\ files' = files \cup {"metadata"}
    /\ written' = written \cup {"metadata"}
    /\ pc' = "store_hashtables"
    /\ UNCHANGED <<task, force_training, config, df_token_siren, df_token_fec,
                   file_discarded_token, file_lsh_index, file_hashtables, procVars,
                   inserted, indexed, textVars, tokVars, shVars, moreVars>>

\* _store_lsh_data lines 155-160: to_parquet of the hashtables; the run ends
StoreHashtables ==
    /\ pc = "store_hashtables"
    /\ file_hashtables' = lsh.hashtable_df
    /\ files' = files \cup {"hashtables"}
    /\ written' = written \cup {"hashtables"}
    /\ indexed' = inserted
    /\ pc' = "exit0"
    /\ UNCHANGED <<task, force_training, config, df_token_siren, df_token_fec,
                   file_discarded_token, file_lsh_index, file_metadata, procVars,
                   inserted, textVars, tokVars, shVars, moreVars>>

WritePositions ==
    {"store_lsh_index", "store_metadata", "store_hashtables",
     "push_compauxlib_siren", "push_compauxlib_siren_debug"}

\* the storage refuses a write (no room, no connection, no right): the exception ends the run
StorageFails ==
    /\ pc \in WritePositions
    /\ Exit("exit1")
    /\ UNCHANGED <<textVars, tokVars, shVars, moreVars>>

\* main.py --task predict --fec <database>
InvokePredict ==
    /\ Ended
    /\ task' = "predict"
    /\ force_training' = FALSE
    /\ df_token_fec' \in FecBatches
    /\ pc' = "fec_loaded"
    /\ NewProcess
    /\ UNCHANGED <<config, df_token_siren, fileVars, indexed, textVars, tokVars, shVars, moreVars>>

\* main.py lines 94-96
NoCompauxlib ==
    /\ pc = "fec_loaded" /\ df_token_fec = <<>>
    /\ Exit("exit0")
    /\ UNCHANGED <<textVars, tokVars, shVars, moreVars>>

\* PredictionPreprocessor.run lines 282-284: labels that leave no token; the empty frame
\* is returned after a warning, before the discard table is read
PredictionNoToken ==
    /\ pc = "fec_loaded" /\ df_token_fec = <<>>
    /\ df_fec' = <<>>
    /\ lsh_input_df' = df_fec'
    /\ pc' = "lsh_preprocess_fec"
    /\ UNCHANGED <<task, force_training, config, df_token_siren, df_token_fec,
                   fileVars, df_siren_preprocessed, minhashes, lsh, df_query, histVars>>
    /\ UNCHANGED <<textVars, tokVars, shVars, moreVars>>

\* a plausible slip: a missing discard table is read as an empty one
PredictionShingleWithoutTable ==
    /\ pc = "fec_loaded" /\ df_token_fec # <<>>
    /\ df_fec' = _run_shingler(df_token_fec, file_discarded_token, DefaultWindow)
    /\ lsh_input_df' = df_fec'
    /\ pc' = "lsh_preprocess_fec"
    /\ UNCHANGED <<task, force_training, config, df_token_siren, df_token_fec,
                   fileVars, df_siren_preprocessed, minhashes, lsh, df_query, histVars>>
    /\ UNCHANGED <<textVars, tokVars, shVars, moreVars>>

\* PredictionPreprocessor.run from the discard table on, and the constructor of the
\* LSH processor; without a discard table read_parquet raises
PredictionShingle ==
    /\ pc = "fec_loaded" /\ df_token_fec # <<>>
    /\ IF "discarded_token" \notin files
       THEN Exit("exit1")
       ELSE /\ df_fec' = _run_shingler(df_token_fec, file_discarded_token, DefaultWindow)
            /\ lsh_input_df' = df_fec'
            /\ pc' = "lsh_preprocess_fec"
            /\ UNCHANGED <<task, force_training, config, df_token_siren, df_token_fec,
                           fileVars, df_siren_preprocessed, minhashes, lsh, df_query,
                           histVars>>
    /\ UNCHANGED <<textVars, tokVars, shVars, moreVars>>

\* PredictionLSHProcessor.run lines 245-246; the frame of a batch whose tokens are all
\* discarded has no shingled column, which is a KeyError.  The frame is the one main.py
\* holds: it is changed in place
PredictionLshPreprocess ==
    /\ pc = "lsh_preprocess_fec"
    /\ IF Len(lsh_input_df) = 0
       THEN Exit("exit1")
       ELSE /\ lsh_input_df' = PredictionPreprocess(lsh_input_df)
            /\ df_fec' = lsh_input_df'
            /\ minhashes' = _create_minhashes(lsh_input_df', config.minhash_num_permutations)
            /\ pc' = "load_metadata"
            /\ UNCHANGED <<task, force_training, config, df_token_siren, df_token_fec,
                           fileVars, df_siren_preprocessed, lsh, df_query, histVars>>
    /\ UNCHANGED <<textVars, tokVars, shVars, moreVars>>

\* run lines 247-259: the metadata is read, the signatures are cut and unpivoted
LoadMetadata ==
    /\ pc = "load_metadata"
    /\ IF "metadata" \notin files
       THEN Exit("exit1")
       ELSE /\ lsh_input_df' =
                  _expand_buckets(lsh_input_df, file_metadata.nb_bands,
                                  SplittedMinhashes(minhashes, file_metadata))
            /\ pc' = "query"
            /\ UNCHANGED <<task, force_training, config, df_token_siren, df_token_fec,
                           fileVars, df_siren_preprocessed, df_fec, minhashes, lsh,
                           df_query, histVars>>
    /\ UNCHANGED <<textVars, tokVars, shVars, moreVars>>

\* run lines 260-266: the join with the persisted hashtables and the candidates
QueryCandidates ==
    /\ pc = "query"
    /\ IF "hashtables" \notin files
       THEN Exit("exit1")
       ELSE /\ lsh_input_df' =
                  _preprocess_output_dataframe(
                      QueryCandidatesJoin(lsh_input_df, file_hashtables))
            /\ pc' = "query_siren"
            /\ UNCHANGED <<task, force_training, config, df_token_siren, df_token_fec,
                           fileVars, df_siren_preprocessed, df_fec, minhashes, lsh,
                           df_query, histVars>>
    /\ UNCHANGED <<textVars, tokVars, shVars, moreVars>>

\* main.py lines 112-117: the rows of the lsh-index table of the candidates; without a
\* candidate the list of the query is empty, "IN ()", which the engine refuses.  What
\* follows up to line 171 computes the output frames in memory
QuerySiren ==
    /\ pc = "query_siren"
    /\ IF lsh_input_df = <<>> \/ "lsh_index" \notin files
       THEN Exit("exit1")
       ELSE /\ df_query' =
                  LET lsh_indexes == Range(Column(lsh_input_df, "candidate_lsh_index"))
                  IN  SelectSeq(file_lsh_index,
                                LAMBDA row : row.lsh_index \in lsh_indexes
                                             /\ row.lsh_index # -1)
            /\ pc' = "push_compauxlib_siren"
            /\ UNCHANGED <<task, force_training, config, df_token_siren, df_token_fec,
                           fileVars, df_siren_preprocessed, df_fec, lsh_input_df,
                           minhashes, lsh, histVars>>
    /\ UNCHANGED <<textVars, tokVars, shVars, moreVars>>

\* main.py lines 145-152: Estimator.run sorts on jaccard_distance_unfiltered, which no
\* line of the program computes; unless the tables queried bring the column, it raises
EstimatorRaises ==
    /\ pc = "push_compauxlib_siren"
    /\ Exit("exit1")
    /\ UNCHANGED <<textVars, tokVars, shVars, moreVars>>

\* main.py lines 172-175, first turn of the loop
PushCompauxlibSiren ==
    /\ pc = "push_compauxlib_siren"
    /\ files' = files \cup {"compauxlib_siren"}
    /\ written' = written \cup {"compauxlib_siren"}
    /\ pc' = "push_compauxlib_siren_debug"
    /\ UNCHANGED <<task, force_training, config, df_token_siren, df_token_fec,
                   file_discarded_token, file_lsh_index, file_metadata, file_hashtables,
                   procVars, inserted, indexed, textVars, tokVars, shVars, moreVars>>

\* main.py lines 172-176, second turn of the loop; the run ends
PushCompauxlibSirenDebug ==
    /\ pc = "push_compauxlib_siren_debug"
    /\ files' = files \cup {"compauxlib_siren_debug"}
    /\ written' = written \cup {"compauxlib_siren_debug"}
    /\ pc' = "exit0"
    /\ UNCHANGED <<task, force_training, config, df_token_siren, df_token_fec,
                   file_discarded_token, file_lsh_index, file_metadata, file_hashtables,
                   procVars, inserted, indexed, textVars, tokVars, shVars, moreVars>>

Next ==
    \/ InvokeTrain
    \/ TrainSkip
    \/ TrainNoTable
    \/ TrainLoad
    \/ ExtractTokenToFilter
    \/ TrainingShingle
    \/ StoreLshIndex
    \/ TrainingLshPreprocess
    \/ ConstructLSH
    \/ ConstructLSHFails
    \/ InsertNext
    \/ PrepareDataToStore
    \/ StoreMetadata
    \/ StoreHashtables
    \/ StorageFails
    \/ InvokePredict
    \/ NoCompauxlib
    \/ PredictionNoToken
    \/ PredictionShingle
    \/ PredictionLshPreprocess
    \/ LoadMetadata
    \/ QueryCandidates
    \/ QuerySiren
    \/ EstimatorRaises
    \/ PushCompauxlibSiren
    \/ PushCompauxlibSirenDebug

Spec == Init /\ [][Next]_vars

-----------------------------------------------------------------------------
(* Claims on the normaliser, the tokenizer and the shingler *)

LowerCase == {"a", "e", "s", "é", "ß"}

\* C9: preprocess_label is idempotent, preprocess_label(preprocess_label(x)) =
\* preprocess_label(x) for every raw label x, and its output holds no lower-case
\* letter, no punctuation character, no period and no tab.
C9_NormalizeIdempotent ==
    text_pc = "done" =>
        /\ preprocess_label(preprocessed_label) = preprocessed_label
        /\ \A i \in 1..Len(preprocessed_label) :
              preprocessed_label[i] \notin LowerCase \cup Punctuation \cup {"\t"}

\* a label with an accent, a transliterated quote, a period and a tab was normalised
C9_Witness ==
    /\ text_pc = "done"
    /\ label = <<"«", ".", "\t">>
    /\ preprocessed_label = <<" ", " ">>

\* C7: the stopword step removes a token if and only if it is longer than one
\* character and equal to a member of the stopword set; a single-character token
\* is never removed, stopword or not.
C7_StopwordRemoval ==
    tok_pc = "destopped" =>
        df_entity_token =
            SelectSeq(_tokenize(input_df),
                      LAMBDA row : ~(Len(row.token) > 1 /\ row.token \in stopwords))

\* the stopwords hold "A" and "AS"; of the tokens A, AS, S the step removed only AS
C7_Witness ==
    /\ tok_pc = "destopped"
    /\ <<"A">> \in stopwords /\ <<"A", "S">> \in stopwords
    /\ input_df[1].label = <<"A", " ", "A", "S">>
    /\ input_df[2] = [key |-> 2, label |-> <<"S">>]
    /\ df_entity_token = << [key |-> 1, token |-> <<"A">>], [key |-> 2, token |-> <<"S">>] >>

\* the tokens of entity k that survive the stopword removal, in their order
SurvivingTokens(k) ==
    Column(Group(_remove_multi_characters_stopwords(_tokenize(input_df), stopwords), k),
           "token")

\* C6: single-character merge rule.  For every entity, with its tokens surviving
\* the stopword removal: if their maximum length is 1 the tokenizer outputs exactly
\* one token, their concatenation in the original order; if it is greater than 1
\* it outputs exactly the tokens longer than 1, and the length-1 tokens are dropped.
C6_SingleCharacterMerge ==
    tok_pc = "done" =>
        \A k \in Keys :
            LET tokens == SurvivingTokens(k)
                out == Column(Group(df_entity_token, k), "token")
            IN  IF tokens = <<>> THEN out = <<>>
                ELSE IF MaxOf({Len(tokens[i]) : i \in 1..Len(tokens)}) = 1
                     THEN out = << Flatten(tokens) >>
                     ELSE out = SelectSeq(tokens, LAMBDA t : Len(t) > 1)

\* entity 1 had the tokens S, A and was merged to SA; entity 2 had A, SA and kept SA
C6_Witness ==
    /\ tok_pc = "done"
    /\ input_df = << [key |-> 1, label |-> <<"S", " ", "A">>],
                     [key |-> 2, label |-> <<"A", " ", "S", "A">>] >>
    /\ <<"S", "A">> \notin stopwords
    /\ df_entity_token = << [key |-> 1, token |-> <<"S", "A">>],
                            [key |-> 2, token |-> <<"S", "A">>] >>

\* C8: for a token and a window k >= 1, shingle_label returns the token itself as
\* its only shingle when len(token) <= k, and otherwise exactly the set of the
\* len(token)-k+1 contiguous substrings of length k, nothing shorter.
C8_ShingleWindow ==
    sh_pc = "shingled" =>
        \A i \in 1..Len(df_shingled) :
            LET token == df_shingled[i].token
                shingles == df_shingled[i].shingled_token
            IN  IF Len(token) <= window THEN shingles = {token}
                ELSE /\ shingles = {SubSeq(token, j, j + window - 1) :
                                        j \in 1..(Len(token) - window + 1)}
                     /\ \A x \in shingles : Len(x) = window

\* with the default window, a token of five characters gave its two 4-grams and
\* a token of two characters gave itself
C8_Witness ==
    /\ sh_pc = "shingled"
    /\ window = DefaultWindow
    /\ df_shingled[1].token = <<"A", "B", "A", "B", "B">>
    /\ df_shingled[1].shingled_token = {<<"A", "B", "A", "B">>, <<"B", "A", "B", "B">>}
    /\ df_shingled[2].token = <<"A", "B">>
    /\ df_shingled[2].shingled_token = {<<"A", "B">>}

TokensOf(k) == Column(Group(df_entity_token, k), "token")

KeptShingles(k) ==
    UNION {shingle_label(t, window) : t \in Range(TokensOf(k)) \ discarded_token}

AllShingles(k) == UNION {shingle_label(t, window) : t \in Range(TokensOf(k))}

\* entity k has one output row; its filtered representation is not empty and is
\* the shingles of its tokens outside the discard table, or else its unfiltered one
HasFilteredFallback(k) ==
    LET rows == SelectSeq(df_output, LAMBDA row : row.key = k)
    IN  /\ Len(rows) = 1
        /\ rows[1].shingled_filtered # <<>>
        /\ Range(SplitOn(rows[1].shingled_unfiltered, ",", <<>>)) = AllShingles(k)
        /\ IF KeptShingles(k) # {}
           THEN Range(SplitOn(rows[1].shingled_filtered, ",", <<>>)) = KeptShingles(k)
           ELSE rows[1].shingled_filtered = rows[1].shingled_unfiltered

BatchAllDiscarded ==
    \A i \in 1..Len(df_entity_token) : df_entity_token[i].token \in discarded_token

\* C10 as stated: for every batch and every discard table, every entity with a
\* token gets an output row with a non-empty filtered representation, also when
\* every token of the whole batch is in the discard table.
C10_Original ==
    sh_pc = "returned" =>
        \A k \in Keys : TokensOf(k) # <<>> => HasFilteredFallback(k)

\* C10 (amended): when at least one token of the batch is outside the discard
\* table, every entity with a token gets an output row whose filtered
\* representation is non-empty: the union of the shingle sets of its tokens
\* outside the discard table, or its unfiltered representation when that union
\* is empty.  When every token of the batch is discarded the result is empty.
C10_FilteredFallback ==
    sh_pc = "returned" =>
        IF BatchAllDiscarded THEN df_output = <<>>
        ELSE \A k \in Keys : TokensOf(k) # <<>> => HasFilteredFallback(k)

\* entity 2 has only a discarded token while entity 1 keeps one: entity 2 got the
\* unfiltered representation as its filtered one
C10_Witness ==
    /\ sh_pc = "returned"
    /\ window = DefaultWindow
    /\ df_entity_token = << [key |-> 1, token |-> <<"A", "A">>],
                            [key |-> 2, token |-> <<"A", "B">>] >>
    /\ discarded_token = {<<"A", "B">>}
    /\ df_output[2] = [key |-> 2, shingled_unfiltered |-> <<"A", "B">>,
                       shingled_filtered |-> <<"A", "B">>]

-----------------------------------------------------------------------------
(* SpecParams: the constructor of the index for every threshold and length *)

InitParams ==
    /\ TextIdle /\ TokIdle /\ ShIdle /\ MoreIdle
    /\ pc = "construct" /\ task = "train" /\ force_training = FALSE
    /\ config \in [lsh_threshold : 1..(ThresholdDen - 1), minhash_num_permutations : 2..MaxPerm]
    /\ df_token_siren = <<>> /\ df_token_fec = <<>>
    /\ NoFiles /\ NoProcess /\ NoHistory

NextParams == ConstructLSH \/ ConstructLSHFails

SpecParams == InitParams /\ [][NextParams]_vars

-----------------------------------------------------------------------------
(* Claims on the index *)

\* the prediction has its candidates
Queried ==
    /\ task = "predict"
    /\ pc \in {"query_siren", "push_compauxlib_siren", "push_compauxlib_siren_debug"}

\* the candidate ids returned for the entity of row q of the prediction frame
Candidates(q) ==
    {lsh_input_df[i].candidate_lsh_index :
        i \in {j \in 1..Len(lsh_input_df) : lsh_input_df[j].key = df_fec[q].key}}

\* the serialized slice of a signature for a band of the persisted metadata
SerializedSlice(signature, band) ==
    _H(Slice(signature, file_metadata.hashranges[band][1],
             file_metadata.hashranges[band][2]))

\* C1: insert-then-query round trip.  When the training pass inserted signature X
\* under id n and the index was exported and persisted, a prediction query with a
\* signature equal to X returns a candidate set that contains n, whatever other ids
\* were inserted before or after n in the same pass.
C1_InsertQueryRoundTrip ==
    Queried =>
        \A q \in 1..Len(minhashes) : \A n \in 1..Len(indexed) :
            minhashes[q] = indexed[n].minhash => indexed[n].index \in Candidates(q)

C1_Witness ==
    /\ Queried
    /\ \E q \in 1..Len(minhashes) : \E n, m \in 1..Len(indexed) :
          /\ n # m
          /\ minhashes[q] = indexed[n].minhash
          /\ indexed[n].index \in Candidates(q)

\* C2: the candidate set returned for a query signature q is exactly the set of the
\* inserted ids c such that, for some band i in [0, b), the serialized slice i of q is
\* byte-identical to the serialized slice i of the signature c was inserted with; a
\* band whose slice matches no bucket adds nothing and is no error.
C2_CandidatesAreBandMatches ==
    Queried =>
        \A q \in 1..Len(minhashes) :
            Candidates(q) =
                {indexed[n].index :
                    n \in {m \in 1..Len(indexed) :
                            \E band \in 1..file_metadata.nb_bands :
                                SerializedSlice(minhashes[q], band)
                                    = SerializedSlice(indexed[m].minhash, band)}}

C2_Witness ==
    /\ Queried
    /\ file_metadata.nb_bands >= 2
    /\ \E q \in 1..Len(minhashes) :
          /\ Candidates(q) # {}
          /\ \E n \in 1..Len(indexed) : indexed[n].index \notin Candidates(q)
          /\ \E band \in 1..file_metadata.nb_bands : \A n \in 1..Len(indexed) :
                SerializedSlice(minhashes[q], band) # SerializedSlice(indexed[n].minhash, band)

\* C3: the index goes from Unbuilt to Built (read-only).  Every insert of a training
\* run belongs to the one bulk pass, which has ended before anything of the index is
\* exported and stored; no insert follows the export; no query sits between the
\* inserts; a prediction run reads the persisted index (hashtables, metadata, lsh-index
\* table, discard table) and never changes it.
C3_Lifecycle ==
    [][ /\ Len(inserted') > Len(inserted) =>
              /\ task = "train" /\ pc = "update" /\ pc' = "update"
              /\ written \cap {"metadata", "hashtables"} = {}
        /\ (written' \cap {"metadata", "hashtables"}) # (written \cap {"metadata", "hashtables"}) =>
              /\ task = "train"
              /\ Len(inserted) = Len(minhashes)
              /\ lsh.hashtable_df = prepare_data_to_store(lsh).hashtable_df
        /\ pc = "query" => task = "predict" /\ lsh = NoLSH /\ inserted = <<>>
        /\ task = "predict" /\ task' = "predict" =>
              /\ UNCHANGED <<file_discarded_token, file_lsh_index, file_metadata,
                             file_hashtables>>
              /\ files' \cap (IndexArtifacts \cup {"discarded_token"})
                    = files \cap (IndexArtifacts \cup {"discarded_token"})
      ]_vars

C3_Witness ==
    /\ Queried
    /\ Len(indexed) >= 2
    /\ lsh_input_df # <<>>

\* C4: a run is all-or-nothing.  When a training or a prediction run ends on an
\* unrecoverable error, that run has persisted no index artifact (lsh-index table, LSH
\* metadata, LSH hashtables) and no output table.
C4_AllOrNothing ==
    pc = "exit1" => written \cap (IndexArtifacts \cup OutputTables) = {}

-----------------------------------------------------------------------------
(* SpecFilter: one call of Tokenizer.get_token_to_filter(method, threshold) *)

\* Series.quantile(q) of the frequencies, linear interpolation, times 10000; q in 1/10000
QuantileOfFrequencies(ranking, q) ==
    LET ranked == SortInts(RankedCounts(ranking))
        counts == [n \in 1..Len(ranked) |-> ranked[n] \div (Len(ranking) + 1)]
        position == q * (Len(counts) - 1)
        lo == position \div 10000 + 1
        hi == IF lo < Len(counts) THEN lo + 1 ELSE lo
    IN  counts[lo] * 10000 + (counts[hi] - counts[lo]) * (position % 10000)

\* a plausible slip: > for >=
QuantileRowsAbove(ranking, q) ==
    IF ranking = <<>> THEN <<>>
    ELSE SelectSeq(ranking, LAMBDA row :
                      row.frequency.count * 10000 > QuantileOfFrequencies(ranking, q))

\* method 'quantile': the rows whose frequency reaches the quantile; the quantile of no
\* row is NaN, which no frequency reaches.  Both sides are in 1/10000 of 1/sum
QuantileRows(ranking, q) ==
    IF ranking = <<>> THEN <<>>
    ELSE SelectSeq(ranking, LAMBDA row :
                      row.frequency.count * 10000 >= QuantileOfFrequencies(ranking, q))

\* sort_values('frequency', ascending=False): rows of equal frequency in any order
SortedByFrequency(ranking) ==
    { order \in [1..Len(ranking) -> Range(ranking)] :
        /\ Range(order) = Range(ranking)
        /\ \A i \in 1..(Len(ranking) - 1) : order[i].frequency.count >= order[i + 1].frequency.count }

\* DataFrame.head(n)
Head_(df, n) == SubSeq(df, 1, IF n < Len(df) THEN n ELSE Len(df))

\* the thresholds given: below, inside and above [0, 1], whole numbers as int and as float
FilterThresholds ==
    { t \in [value : {-5000, 0, 5000, 9999, 10000, 15000, 20000}, is_int : BOOLEAN] :
        t.is_int => t.value % 10000 = 0 }

FilterMethods == {"quantile", "topk", "median"}

InitFilter ==
    /\ TextIdle /\ ShIdle /\ PipeIdle /\ EstIdle /\ ConsIdle
    /\ tok_pc = "done" /\ input_df = <<>> /\ stopwords = {}
    /\ df_entity_token \in Corpora \cup {<<>>}
    /\ filter_pc = "called"
    /\ filter_method \in FilterMethods
    /\ filter_threshold \in FilterThresholds
    /\ discarded_table = <<>>

\* lines 151-156
FilterQuantile ==
    /\ filter_pc = "called" /\ filter_method = "quantile"
    /\ IF filter_threshold.value > 10000 \/ filter_threshold.value < 0
       THEN filter_pc' = "exit1" /\ UNCHANGED discarded_table
       ELSE /\ discarded_table' = QuantileRows(_get_tokens_frequencies(df_entity_token),
                                               filter_threshold.value)
            /\ filter_pc' = "returned"
    /\ UNCHANGED <<filter_method, filter_threshold, textVars, tokVars, shVars, pipeVars, estVars, consVars>>

\* lines 157-164: head() takes an int; a float, whole or not, is a TypeError of iloc
FilterTopk ==
    /\ filter_pc = "called" /\ filter_method = "topk"
    /\ IF filter_threshold.value < 10000
       THEN filter_pc' = "exit1" /\ UNCHANGED discarded_table
       ELSE IF ~filter_threshold.is_int
       THEN filter_pc' = "TypeError" /\ UNCHANGED discarded_table
       ELSE /\ \E sorted \in SortedByFrequency(_get_tokens_frequencies(df_entity_token)) :
                  discarded_table' = Head_(sorted, filter_threshold.value \div 10000)
            /\ filter_pc' = "returned"
    /\ UNCHANGED <<filter_method, filter_threshold, textVars, tokVars, shVars, pipeVars, estVars, consVars>>

\* lines 165-170
FilterOtherMethod ==
    /\ filter_pc = "called" /\ filter_method \notin {"quantile", "topk"}
    /\ filter_pc' = "exit1"
    /\ UNCHANGED <<filter_method, filter_threshold, discarded_table,
                   textVars, tokVars, shVars, pipeVars, estVars, consVars>>

NextFilter == FilterQuantile \/ FilterTopk \/ FilterOtherMethod

SpecFilter == InitFilter /\ [][NextFilter]_vars

\* the cases the contract names as fatal
FatalConfiguration ==
    \/ filter_method = "quantile" /\ (filter_threshold.value < 0 \/ filter_threshold.value > 10000)
    \/ filter_method = "topk" /\ filter_threshold.value < 10000
    \/ filter_method \notin {"quantile", "topk"}

\* C11: get_token_to_filter aborts, returning no discard table, in exactly these cases:
\* method 'quantile' with threshold < 0 or > 1, method 'topk' with threshold < 1, any
\* other method name; in every other case it returns a discard table and does not abort.
C11_AbortsExactlyOnFatalConfiguration ==
    filter_pc \notin {"idle", "called"} =>
        /\ FatalConfiguration <=> filter_pc # "returned"
        /\ FatalConfiguration => discarded_table = <<>>

-----------------------------------------------------------------------------
(* estimator.py *)

\* a value of a float column: a number, or NaN
Float(v) == [nan |-> FALSE, value |-> v]

FloatNaN == [nan |-> TRUE, value |-> 0]

\* a < b on floats: False as soon as one side is NaN
FloatLess(a, b) == ~a.nan /\ ~b.nan /\ a.value < b.value

FloatSub(a, b) == IF a.nan \/ b.nan THEN FloatNaN ELSE Float(a.value - b.value)

\* 1e8
INFINITE_DISTANCE == 100000000

\* x[:9]
Siren(siret) == Slice(siret, 0, 9)

\* config['model_parameters']['unite_legale_denominations']
denomination_unite_legale == {"denominationUniteLegale"}

\* the columns of the personne morale base
PersonneMoraleColumns == {"siren", "siret", "AbscisseEtablissement", "OrdonneeEtablissement"}

\* the missing value of a column of the personne morale base
Missing(column) ==
    IF column \in {"AbscisseEtablissement", "OrdonneeEtablissement"} THEN FloatNaN ELSE NaN

\* df.drop(columns=columns)
DropColumns(df, columns) ==
    [i \in 1..Len(df) |-> [c \in (DOMAIN df[i]) \ columns |-> df[i][c]]]

\* df.merge(right, how='left', on=joining_key)
LeftMerge(df, right, joining_key) ==
    Flatten([i \in 1..Len(df) |->
        LET matches == SelectSeq(right, LAMBDA row : row[joining_key] = df[i][joining_key])
        IN  IF matches = <<>>
            THEN << df[i] @@ [c \in PersonneMoraleColumns \ {joining_key} |-> Missing(c)] >>
            ELSE [j \in 1..Len(matches) |-> df[i] @@ matches[j]]])

_prepare_final_output(df_to_prepare, columns_to_drop, columns_to_deduplicate, joining_key) ==
    LET dropped == DropColumns(df_to_prepare, columns_to_drop)
        deduplicated ==
            DropDuplicates(dropped,
                [i \in 1..Len(dropped) |-> [c \in columns_to_deduplicate |-> dropped[i][c]]])
    IN  LeftMerge(deduplicated, personne_morale_df, joining_key)

\* the frame and the siret to discard, for the input frame df
PreparedUniteLegale(df) ==
    LET rows == SelectSeq(df, LAMBDA row : row.denomination_type \in denomination_unite_legale)
        with_siren == [i \in 1..Len(rows) |-> rows[i] @@ [siren |-> Siren(rows[i].siret)]]
    IN  [df_fec_unite_legale |->
             _prepare_final_output(with_siren, {"siret", "denomination_type"},
                                   {"COMPAUXLIB", "siren"}, "siren"),
         siret_to_discard |-> {rows[i].siret : i \in 1..Len(rows)}]

_prepare_unite_legale == PreparedUniteLegale(estimator_input_df)

\* the establishment rows, for the input frame df
PreparedEtablissement(df, sirets) ==
    _prepare_final_output(SelectSeq(df, LAMBDA row : row.siret \notin sirets),
                          {"denomination_type"}, {"COMPAUXLIB", "siret"}, "siret")

_prepare_etablissement(sirets) == PreparedEtablissement(estimator_input_df, sirets)

\* ','.join(sorted(x)), NaN left alone and then filled with ''
JoinSorted(x) == IF x = NaN THEN <<>> ELSE Join(SortStrings(Range(x)), <<",">>)

\* Estimator.run from the concatenation to the call of _set_final_rank
Concatenated(unite_legale, etablissement) ==
    LET both == unite_legale \o etablissement
        joined == [i \in 1..Len(both) |->
                      [both[i] EXCEPT
                          !.shingled_COMPAUXLIB_unfiltered = JoinSorted(@),
                          !.shingled_denomination_unfiltered = JoinSorted(@)]]
    IN  DropDuplicates(joined, joined)

ConcatPrepared == Concatenated(df_fec_unite_legale, df_fec_etablissement)

RECURSIVE GeoDistance(_, _, _)
RECURSIVE SortForRank(_, _)
RECURSIVE SortedByFinalRank(_, _)
RECURSIVE SortedByFinalRankDescending(_, _)

ISqrt(n) == CHOOSE k \in 0..n : k * k <= n /\ (k + 1) * (k + 1) > n

\* numpy.linalg.norm([x, y])
norm(x, y) ==
    IF x.nan \/ y.nan THEN FloatNaN ELSE Float(ISqrt(x.value * x.value + y.value * y.value))

\* the builtin min(a, b): b when b < a, else a
min(a, b) == IF FloatLess(b, a) THEN b ELSE a

\* the geo_distance of one row after the loop over the first n sites
GeoDistance(row, sites, n) ==
    IF n = 0 THEN Float(INFINITE_DISTANCE)
    ELSE min(norm(FloatSub(row.AbscisseEtablissement, sites[n].Abscisse),
                  FloatSub(row.OrdonneeEtablissement, sites[n].Ordonnee)),
             GeoDistance(row, sites, n - 1))

\* the frame _set_geo_distance leaves in input_df
_set_geo_distance(df) ==
    LET valid_input_df == SelectSeq(df, LAMBDA row : row.candidate_lsh_index # -1)
    IN  [i \in 1..Len(valid_input_df) |->
            valid_input_df[i] @@
            [geo_distance |-> GeoDistance(valid_input_df[i], fec_coordinates.value,
                                          Len(fec_coordinates.value))]]

\* the order of sort_values(['COMPAUXLIB', 'jaccard_distance_unfiltered', 'geo_distance']),
\* NaN last
RankBefore(a, b) ==
    \/ LexLess(a.COMPAUXLIB, b.COMPAUXLIB)
    \/ /\ a.COMPAUXLIB = b.COMPAUXLIB
       /\ \/ a.jaccard_distance_unfiltered < b.jaccard_distance_unfiltered
          \/ /\ a.jaccard_distance_unfiltered = b.jaccard_distance_unfiltered
             /\ \/ FloatLess(a.geo_distance, b.geo_distance)
                \/ ~a.geo_distance.nan /\ b.geo_distance.nan

\* the sort on several columns is a lexsort, which keeps the order of equal rows
InsertSorted(sorted, row) ==
    LET k == Cardinality({i \in 1..Len(sorted) : ~RankBefore(row, sorted[i])})
    IN  SubSeq(sorted, 1, k) \o <<row>> \o SubSeq(sorted, k + 1, Len(sorted))

SortForRank(df, sorted) ==
    IF df = <<>> THEN sorted ELSE SortForRank(Tail(df), InsertSorted(sorted, Head(df)))

\* groupby('COMPAUXLIB')['final_rank'].cumsum() over a column of ones
CumSum(df) ==
    [i \in 1..Len(df) |->
        [df[i] EXCEPT !.final_rank =
            Cardinality({j \in 1..i : df[j].COMPAUXLIB = df[i].COMPAUXLIB})]]

\* lines 154-166 of _set_final_rank
Ranked(df) ==
    LET with_rank == [i \in 1..Len(df) |-> df[i] @@ [final_rank |-> 1]]
        with_geo == IF fec_coordinates.none
                    THEN [i \in 1..Len(df) |-> with_rank[i] @@ [geo_distance |-> Float(0)]]
                    ELSE _set_geo_distance(with_rank)
    IN  CumSum(SortForRank(with_geo, <<>>))

\* a plausible slip: ascending=False
SortedByFinalRankDescending(df, S) ==
    IF S = {} THEN {<<>>}
    ELSE UNION { { <<df[i]>> \o rest : rest \in SortedByFinalRankDescending(df, S \ {i}) } :
                 i \in {j \in S : \A k \in S : df[j].final_rank >= df[k].final_rank} }

\* the orders sort_values(by='final_rank') can leave the rows S of df in: the sort on
\* one column is a quicksort, which may put rows of equal rank in any order
SortedByFinalRank(df, S) ==
    IF S = {} THEN {<<>>}
    ELSE UNION { { <<df[i]>> \o rest : rest \in SortedByFinalRank(df, S \ {i}) } :
                 i \in {j \in S : \A k \in S : df[j].final_rank <= df[k].final_rank} }

\* a plausible slip: the ranks are taken to start at 0
WithinLimitFromZero(final_rank) ==
    IF limit.none THEN TRUE ELSE final_rank - 1 <= limit.value

\* lines 170-172 of _set_final_rank: the value of validated for a row
WithinLimit(final_rank) ==
    IF limit.none THEN TRUE ELSE final_rank <= limit.value

\* a plausible slip: the duplicated siren are not dropped
ValidatedWithDuplicates(sorted) ==
    [i \in 1..Len(sorted) |->
        sorted[i] @@
        [validated |-> IF limit.none THEN TRUE ELSE sorted[i].final_rank <= limit.value]]

\* lines 168-173 of _set_final_rank, on the frame sorted by final_rank
Validated(sorted) ==
    LET deduplicated == DropDuplicates(sorted, [i \in 1..Len(sorted) |-> sorted[i].siren])
    IN  [i \in 1..Len(deduplicated) |->
            deduplicated[i] @@ [validated |-> WithinLimit(deduplicated[i].final_rank)]]

-----------------------------------------------------------------------------
(* SpecEstimator: one Estimator object and one call of its run *)

ALPH == <<"A", "L", "P", "H">>
LPHA == <<"L", "P", "H", "A">>
LPHB == <<"L", "P", "H", "B">>

\* two legal units: the 9 characters of the siren, then those of the establishment
S1X == <<"1", "1", "1", "1", "1", "1", "1", "1", "1", "0", "0", "0", "1", "1">>
S2X == <<"1", "1", "1", "1", "1", "1", "1", "1", "1", "0", "0", "0", "2", "9">>
S1Y == <<"2", "2", "2", "2", "2", "2", "2", "2", "2", "0", "0", "0", "1", "5">>

\* the personne morale base: the second unit has no coordinates
PersonneMorale ==
    << [siren |-> Siren(S1X), siret |-> S1X,
        AbscisseEtablissement |-> Float(0), OrdonneeEtablissement |-> Float(0)],
       [siren |-> Siren(S2X), siret |-> S2X,
        AbscisseEtablissement |-> Float(3), OrdonneeEtablissement |-> Float(4)],
       [siren |-> Siren(S1Y), siret |-> S1Y,
        AbscisseEtablissement |-> FloatNaN, OrdonneeEtablissement |-> FloatNaN] >>

\* the COMPAUXLIB of the batch, with their shingles
QueryEntities ==
    << [COMPAUXLIB |-> ALPHA, shingled_COMPAUXLIB_unfiltered |-> <<ALPH, LPHA>>],
       [COMPAUXLIB |-> ALPHB, shingled_COMPAUXLIB_unfiltered |-> <<ALPH, LPHB>>] >>

\* the rows of lsh_index_siren that main.py merges on candidate_lsh_index
LshIndexSiren ==
    << [candidate_lsh_index |-> 0, siret |-> S1X,
        denomination_type |-> "denominationUniteLegale",
        shingled_denomination_unfiltered |-> <<ALPH, LPHA>>],
       [candidate_lsh_index |-> 1, siret |-> S1X,
        denomination_type |-> "enseigne1Etablissement",
        shingled_denomination_unfiltered |-> <<ALPH, LPHB>>],
       [candidate_lsh_index |-> 2, siret |-> S2X,
        denomination_type |-> "enseigne1Etablissement",
        shingled_denomination_unfiltered |-> <<ALPH>>],
       [candidate_lsh_index |-> 3, siret |-> S1Y,
        denomination_type |-> "denominationUniteLegale",
        shingled_denomination_unfiltered |-> <<LPHB>>] >>

\* every (COMPAUXLIB, candidate) row, by COMPAUXLIB
CandidateRows ==
    Flatten([q \in 1..Len(QueryEntities) |->
                [c \in 1..Len(LshIndexSiren) |-> QueryEntities[q] @@ LshIndexSiren[c]]])

\* the frames main.py can give without a column jaccard_distance_unfiltered
UnscoredFrames ==
    { SelectRows(CandidateRows, mask) :
        mask \in { m \in [1..Len(CandidateRows) -> BOOLEAN] :
                     Cardinality({i \in DOMAIN m : m[i]}) \in 1..MaxCandidates } }

\* the values of jaccard_distance_unfiltered, in sixths
JaccardDistances == {0, 3}

\* the frames with a column jaccard_distance_unfiltered
ScoredFrames ==
    UNION { { [i \in 1..Len(df) |-> df[i] @@ [jaccard_distance_unfiltered |-> d[i]]] :
              d \in [1..Len(df) -> JaccardDistances] } : df \in UnscoredFrames }

\* fec_coordinates: None (the default), no site found, one site, two sites
FecCoordinates ==
    { None, Some(<<>>),
      Some(<< [Abscisse |-> Float(0), Ordonnee |-> Float(0)] >>),
      Some(<< [Abscisse |-> Float(6), Ordonnee |-> Float(8)],
              [Abscisse |-> Float(3), Ordonnee |-> Float(4)] >>) }

\* nb_final_candidates
Limits == {None, Some(1), Some(2)}

InitEstimator ==
    /\ TextIdle /\ TokIdle /\ ShIdle /\ PipeIdle /\ FiltIdle /\ ConsIdle
    /\ est_pc = "constructed"
    /\ has_jaccard_distance \in BOOLEAN
    /\ estimator_input_df \in (IF has_jaccard_distance THEN ScoredFrames ELSE UnscoredFrames)
    /\ personne_morale_df = PersonneMorale
    /\ fec_coordinates \in FecCoordinates
    /\ limit \in Limits
    /\ df_fec_unite_legale = <<>> /\ siret_to_discard = {} /\ df_fec_etablissement = <<>>
    /\ df_ranked = <<>>
    /\ df_fec_w_candidates = estimator_input_df

PrepareUniteLegale ==
    /\ est_pc = "constructed"
    /\ df_fec_unite_legale' = _prepare_unite_legale.df_fec_unite_legale
    /\ siret_to_discard' = _prepare_unite_legale.siret_to_discard
    /\ est_pc' = "unite_legale"
    /\ UNCHANGED <<df_fec_w_candidates, estimator_input_df, has_jaccard_distance, personne_morale_df,
                   fec_coordinates, limit, df_fec_etablissement, df_ranked,
                   textVars, tokVars, shVars, pipeVars, filtVars, consVars>>

PrepareEtablissement ==
    /\ est_pc = "unite_legale"
    /\ df_fec_etablissement' = _prepare_etablissement(siret_to_discard)
    /\ est_pc' = "etablissement"
    /\ UNCHANGED <<df_fec_w_candidates, estimator_input_df, has_jaccard_distance, personne_morale_df,
                   fec_coordinates, limit, df_fec_unite_legale, siret_to_discard, df_ranked,
                   textVars, tokVars, shVars, pipeVars, filtVars, consVars>>

Concat ==
    /\ est_pc = "etablissement"
    /\ estimator_input_df' = ConcatPrepared
    /\ est_pc' = "merged"
    /\ UNCHANGED <<df_fec_w_candidates, has_jaccard_distance, personne_morale_df, fec_coordinates, limit,
                   df_fec_unite_legale, siret_to_discard, df_fec_etablissement, df_ranked,
                   textVars, tokVars, shVars, pipeVars, filtVars, consVars>>

\* _set_final_rank up to the cumsum; the sort raises when the column is not there
SetFinalRank ==
    /\ est_pc = "merged"
    /\ IF has_jaccard_distance
       THEN /\ estimator_input_df' = Ranked(estimator_input_df)
            /\ df_ranked' = estimator_input_df'
            /\ est_pc' = "ranked"
       ELSE /\ est_pc' = "KeyError"
            /\ UNCHANGED <<estimator_input_df, df_ranked>>
    /\ UNCHANGED <<df_fec_w_candidates, has_jaccard_distance, personne_morale_df, fec_coordinates, limit,
                   df_fec_unite_legale, siret_to_discard, df_fec_etablissement,
                   textVars, tokVars, shVars, pipeVars, filtVars, consVars>>

\* the rest of _set_final_rank
SetValidated ==
    /\ est_pc = "ranked"
    /\ \E sorted \in SortedByFinalRank(estimator_input_df, 1..Len(estimator_input_df)) :
          estimator_input_df' = Validated(sorted)
    /\ est_pc' = "done"
    /\ UNCHANGED <<df_fec_w_candidates, has_jaccard_distance, personne_morale_df, fec_coordinates, limit,
                   df_fec_unite_legale, siret_to_discard, df_fec_etablissement, df_ranked,
                   textVars, tokVars, shVars, pipeVars, filtVars, consVars>>

NextEstimator ==
    \/ PrepareUniteLegale
    \/ PrepareEtablissement
    \/ Concat
    \/ SetFinalRank
    \/ SetValidated

SpecEstimator == InitEstimator /\ [][NextEstimator]_vars

-----------------------------------------------------------------------------
(* SpecConstruct: the construction of one Estimator or one LSH processor *)

\* the columns the input_df setter of the Estimator looks for, in its order
ShingledColumns ==
    << "shingled_denomination_filtered", "shingled_COMPAUXLIB_filtered",
       "shingled_denomination_unfiltered", "shingled_COMPAUXLIB_unfiltered" >>

\* Estimator.input_df, the setter: the exception raised, or the slot assigned
Estimator_input_df(value) ==
    IF value.type # "DataFrame"
    THEN [raised |-> "TypeError", slots |-> {}]
    ELSE IF \E n \in 1..Len(ShingledColumns) : ShingledColumns[n] \notin value.columns
         THEN [raised |-> "ValueError", slots |-> {}]
         ELSE [raised |-> "none", slots |-> {"_input_df"}]

\* BaseLSHProcessor.input_df, the setter
BaseLSHProcessor_input_df(value) ==
    IF value.type # "DataFrame"
    THEN [raised |-> "TypeError", slots |-> {}]
    ELSE [raised |-> "none", slots |-> {"_input_df"}]

Estimator__init__ValidatingLast ==
    << "_personne_morale_df", "_fec_coordinates", "_denomination_unite_legale",
       "_denomination_etablissement", "_threshold", "_nb_rank", "input_df" >>

\* Estimator.__init__: the attributes it assigns, in order
Estimator__init__ ==
    << "input_df", "_personne_morale_df", "_fec_coordinates",
       "_denomination_unite_legale", "_denomination_etablissement",
       "_threshold", "_nb_rank" >>

\* BaseLSHProcessor.__init__, which both processors inherit
BaseLSHProcessor__init__ ==
    << "input_df", "_entity_label", "_num_permutations", "_threshold",
       "_minhashes", "_lsh", "_env_manager" >>

\* one assignment of __init__: through the property for input_df, to the slot otherwise
Assign(class, target, value) ==
    IF target # "input_df" THEN [raised |-> "none", slots |-> {target}]
    ELSE IF class = "Estimator" THEN Estimator_input_df(value)
         ELSE BaseLSHProcessor_input_df(value)

\* the assignments one after the other, up to the first that raises
RECURSIVE Execute(_, _, _, _)
Execute(class, statements, value, slots) ==
    IF statements = <<>> THEN [raised |-> "none", slots |-> slots]
    ELSE LET assigned == Assign(class, Head(statements), value)
         IN  IF assigned.raised # "none"
             THEN [raised |-> assigned.raised, slots |-> slots]
             ELSE Execute(class, Tail(statements), value, slots \cup assigned.slots)

Classes == {"Estimator", "TrainingLSHProcessor", "PredictionLSHProcessor"}

\* what main.py or a caller can pass as input_df: a frame with some columns, or another object
FrameColumns == Range(ShingledColumns) \cup {"siren"}

InputValues ==
    { [type |-> "DataFrame", columns |-> c] : c \in SUBSET FrameColumns }
        \cup { [type |-> t, columns |-> {}] : t \in {"NoneType", "list", "str", "dict"} }

InitConstruct ==
    /\ TextIdle /\ TokIdle /\ ShIdle /\ PipeIdle /\ FiltIdle /\ EstIdle
    /\ cons_pc = "new"
    /\ cons_class \in Classes
    /\ cons_value \in InputValues
    /\ cons_slots = {}

\* Estimator(...), TrainingLSHProcessor(...) or PredictionLSHProcessor(...)
Construct ==
    /\ cons_pc = "new"
    /\ LET statements == IF cons_class = "Estimator" THEN Estimator__init__
                         ELSE BaseLSHProcessor__init__
           made == Execute(cons_class, statements, cons_value, {})
       IN  /\ cons_pc' = (IF made.raised = "none" THEN "constructed" ELSE made.raised)
           /\ cons_slots' = made.slots
    /\ UNCHANGED <<cons_class, cons_value, textVars, tokVars, shVars, pipeVars,
                   filtVars, estVars>>

\* the call of run on the object, which exists only once the constructor has returned
CallRun ==
    /\ cons_pc = "constructed"
    /\ cons_pc' = "run_called"
    /\ UNCHANGED <<cons_class, cons_value, cons_slots, textVars, tokVars, shVars,
                   pipeVars, filtVars, estVars>>

NextConstruct == Construct \/ CallRun

SpecConstruct == InitConstruct /\ [][NextConstruct]_vars

-----------------------------------------------------------------------------
(* Claims on the signatures *)

\* the frame whose rows the signatures of the process belong to
SignedFrame == IF task = "predict" THEN df_fec ELSE lsh_input_df

\* every order in which the words of a list can be given
Orders(words) ==
    { [i \in 1..Len(words) |-> words[p[i]]] :
        p \in { f \in [1..Len(words) -> 1..Len(words)] : Range(f) = 1..Len(words) } }

\* the shingle set behind the signature inserted under an id, from the lsh-index table
IndexedShingles(index) ==
    { Range(SplitOn(file_lsh_index[i].shingled_filtered, ",", <<>>)) :
        i \in {j \in 1..Len(file_lsh_index) : file_lsh_index[j].lsh_index = index} }

\* C12: signature determinism.  Two entities whose filtered shingle sets are equal get
\* bit-identical signatures of length H, whatever the order in which the shingles are
\* listed, whatever the other rows of the batch, and whether the signature is computed
\* in a training run or in a prediction run with the same H.
C12_SignatureDeterminism ==
    minhashes # <<>> =>
        /\ Len(minhashes) = Len(SignedFrame)
        /\ \A i \in 1..Len(minhashes) :
              /\ Len(minhashes[i]) = config.minhash_num_permutations
              /\ \A order \in Orders(SignedFrame[i].shingled_filtered) :
                    minhashes[i] = _create_minhashes(
                        << [shingled_filtered |-> order] >>,
                        config.minhash_num_permutations)[1]
              /\ \A j \in 1..Len(minhashes) :
                    Range(SignedFrame[i].shingled_filtered)
                        = Range(SignedFrame[j].shingled_filtered)
                    => minhashes[i] = minhashes[j]
              /\ task = "predict" =>
                    \A n \in 1..Len(indexed) :
                        Range(SignedFrame[i].shingled_filtered) \in IndexedShingles(indexed[n].index)
                        => minhashes[i] = indexed[n].minhash

C12_Witness ==
    /\ task = "predict" /\ minhashes # <<>>
    /\ \E i, j \in 1..Len(minhashes) :
          /\ i # j
          /\ Cardinality(Range(SignedFrame[i].shingled_filtered)) >= 2
          /\ Range(SignedFrame[i].shingled_filtered) = Range(SignedFrame[j].shingled_filtered)
          /\ minhashes[i] = minhashes[j]
          /\ \E n \in 1..Len(indexed) :
                /\ Range(SignedFrame[i].shingled_filtered) \in IndexedShingles(indexed[n].index)
                /\ minhashes[i] = indexed[n].minhash

-----------------------------------------------------------------------------
(* Claims on the estimator *)

\* the rows of a frame for one COMPAUXLIB
RowsOf(df, q) == SelectSeq(df, LAMBDA row : row.COMPAUXLIB = q)

Entities(df) == {df[i].COMPAUXLIB : i \in 1..Len(df)}

\* the place of a row in the deduplicated list of its COMPAUXLIB, by final_rank
PlaceInList(df, i) ==
    Cardinality({j \in 1..Len(df) : /\ df[j].COMPAUXLIB = df[i].COMPAUXLIB
                                    /\ df[j].final_rank <= df[i].final_rank})

\* C13: for every query entity the validated rows are exactly the first `limit` rows of
\* its ranked, deduplicated candidate list, which are those lowest in
\* (jaccard_distance, geo_distance) (all rows when fewer than `limit` remain); without a
\* limit every remaining row is validated.
C13_ValidatedAreFirstOfList ==
    est_pc = "done" =>
        \A i \in 1..Len(estimator_input_df) :
            /\ estimator_input_df[i].validated
                 <=> (limit.none \/ PlaceInList(estimator_input_df, i) <= limit.value)
            /\ \A j \in 1..Len(estimator_input_df) :
                  /\ estimator_input_df[j].COMPAUXLIB = estimator_input_df[i].COMPAUXLIB
                  /\ estimator_input_df[i].validated
                  /\ ~estimator_input_df[j].validated
                  => ~RankBefore(estimator_input_df[j], estimator_input_df[i])

\* C14: after Estimator.run, no two validated rows of a query entity have the same siren.
C14_ValidatedSirenUnique ==
    est_pc = "done" =>
        \A i, j \in 1..Len(estimator_input_df) :
            /\ i # j
            /\ estimator_input_df[i].COMPAUXLIB = estimator_input_df[j].COMPAUXLIB
            /\ estimator_input_df[i].validated /\ estimator_input_df[j].validated
            => estimator_input_df[i].siren # estimator_input_df[j].siren

\* a run that ranked two rows of one query entity with one siren, and validated two
C14_Witness ==
    /\ est_pc = "done"
    /\ \E i, j \in 1..Len(df_ranked) :
          /\ i # j
          /\ df_ranked[i].COMPAUXLIB = df_ranked[j].COMPAUXLIB
          /\ df_ranked[i].siren = df_ranked[j].siren
    /\ \E i, j \in 1..Len(estimator_input_df) :
          /\ i # j
          /\ estimator_input_df[i].COMPAUXLIB = estimator_input_df[j].COMPAUXLIB
          /\ estimator_input_df[i].validated /\ estimator_input_df[j].validated

\* C15: legal-unit matches are collapsed to their siren (the first 9 characters of the
\* siret), and an establishment match is discarded whenever its siren already has a
\* legal-unit match, so that once both frames are prepared no establishment row of a
\* query entity has the siren of one of its legal-unit rows.
C15_GranularityResolution ==
    est_pc = "etablissement" =>
        /\ \A i \in 1..Len(estimator_input_df) :
              estimator_input_df[i].denomination_type \in denomination_unite_legale
              => \E u \in 1..Len(df_fec_unite_legale) :
                    /\ df_fec_unite_legale[u].COMPAUXLIB = estimator_input_df[i].COMPAUXLIB
                    /\ df_fec_unite_legale[u].siren = Siren(estimator_input_df[i].siret)
        /\ \A e \in 1..Len(df_fec_etablissement) : \A u \in 1..Len(df_fec_unite_legale) :
              df_fec_etablissement[e].COMPAUXLIB = df_fec_unite_legale[u].COMPAUXLIB
              => df_fec_etablissement[e].siren # df_fec_unite_legale[u].siren

\* the shingles of a joined column
Shingles(joined) == IF joined = <<>> THEN {} ELSE Range(SplitOn(joined, ",", <<>>))

\* C16: for every (query entity, candidate) row the estimator computes jaccard_distance
\* as 1 - |A n B| / |A u B| over the unfiltered shingle sets A of the query and B of the
\* candidate (here in sixths), and ranks each query entity by it first.
C16_ExactRescoring ==
    est_pc \in {"ranked", "done", "KeyError"} =>
        /\ est_pc # "KeyError"
        /\ \A i \in 1..Len(df_ranked) :
              LET A == Shingles(df_ranked[i].shingled_COMPAUXLIB_unfiltered)
                  B == Shingles(df_ranked[i].shingled_denomination_unfiltered)
              IN  df_ranked[i].jaccard_distance_unfiltered * Cardinality(A \cup B)
                    = 6 * (Cardinality(A \cup B) - Cardinality(A \cap B))
        /\ \A i, j \in 1..Len(df_ranked) :
              /\ df_ranked[i].COMPAUXLIB = df_ranked[j].COMPAUXLIB
              /\ df_ranked[i].final_rank < df_ranked[j].final_rank
              => df_ranked[i].jaccard_distance_unfiltered
                     <= df_ranked[j].jaccard_distance_unfiltered

\* the ranks of each query entity are 1..n, ascending in (jaccard_distance, geo_distance)
RanksAscending ==
    \A q \in Entities(df_ranked) :
        /\ {RowsOf(df_ranked, q)[i].final_rank : i \in 1..Len(RowsOf(df_ranked, q))}
               = 1..Len(RowsOf(df_ranked, q))
        /\ \A i, j \in 1..Len(RowsOf(df_ranked, q)) :
              RowsOf(df_ranked, q)[i].final_rank < RowsOf(df_ranked, q)[j].final_rank
              => ~RankBefore(RowsOf(df_ranked, q)[j], RowsOf(df_ranked, q)[i])

\* the row without its column validated
Unvalidated(row) == [c \in (DOMAIN row) \ {"validated"} |-> row[c]]

\* the rows of the result that are the ranked row r
KeptAs(r) ==
    {i \in 1..Len(estimator_input_df) : Unvalidated(estimator_input_df[i]) = r}

-----------------------------------------------------------------------------
(* Claims on the degenerate runs *)

AllDiscarded(df_token, discarded) ==
    df_token # <<>> /\ \A i \in 1..Len(df_token) : df_token[i].token \in discarded

\* C19: when a batch yields no token after stopword removal, or every token is in the
\* discard table, preprocessing returns an empty result and every downstream stage
\* (lsh-index assignment, signatures, build or query of the index, estimator) runs to
\* completion without raising.
C19_DegenerateHandledGracefully ==
    /\ (/\ task = "predict" /\ "discarded_token" \in files
        /\ df_token_fec = <<>> \/ AllDiscarded(df_token_fec, file_discarded_token))
       => pc # "exit1"
    /\ (/\ task = "train" /\ "discarded_token" \in written
        /\ AllDiscarded(df_token_siren, file_discarded_token))
       => pc # "exit1"

-----------------------------------------------------------------------------
(* Claims on the persisted metadata *)

\* C20: the persisted metadata holds H, b and one offset pair per band i in [0, b); the
\* pairs are contiguous, disjoint and of one width r (band i is [i*r, (i+1)*r)); and
\* the slice the prediction side cuts and serializes for band i from these offsets
\* alone is byte for byte the key under which the build stored that signature in band i.
C20_MetadataReconstructsSlices ==
    "metadata" \in files =>
        /\ file_metadata.nb_permutations = config.minhash_num_permutations
        /\ file_metadata.nb_bands >= 1
        /\ Len(file_metadata.hashranges) = file_metadata.nb_bands
        /\ \E r \in 1..file_metadata.nb_permutations :
              /\ file_metadata.nb_bands * r <= file_metadata.nb_permutations
              /\ \A i \in 1..file_metadata.nb_bands :
                    file_metadata.hashranges[i] = <<(i - 1) * r, i * r>>
        /\ ("metadata" \in written) =>
              /\ Len(lsh.keys) = Len(inserted)
              /\ \A n \in 1..Len(lsh.keys) : \A band \in 1..file_metadata.nb_bands :
                    /\ lsh.keys[n].key = inserted[n].index
                    /\ _get_bytes_hashvalues(inserted[n].minhash,
                                             file_metadata.hashranges[band])
                          = lsh.keys[n].Hs[band]
                    /\ Len(lsh.keys[n].Hs[band])
                          = ItemSize * (file_metadata.hashranges[band][2]
                                          - file_metadata.hashranges[band][1])

\* a build of two bands of two rows that stored its metadata, with two signatures in
C20_Witness ==
    /\ task = "train" /\ "metadata" \in written
    /\ file_metadata.nb_bands = 2
    /\ file_metadata.hashranges = << <<0, 2>>, <<2, 4>> >>
    /\ Len(lsh.keys) >= 2
    /\ lsh.keys[1].Hs[2] = _get_bytes_hashvalues(inserted[1].minhash, <<2, 4>>)
    /\ lsh.keys[1].Hs[1] # lsh.keys[1].Hs[2]

-----------------------------------------------------------------------------
(* Claims on the geographical distance *)

\* the row has no site coordinates
Unresolved(row) == row.AbscisseEtablissement.nan \/ row.OrdonneeEtablissement.nan

\* C21: when reference coordinates are supplied, a candidate whose site coordinates are
\* missing gets geo_distance equal to INFINITE_DISTANCE, and is ranked after every
\* candidate of its query entity with the same jaccard_distance and a resolved distance.
C21_SentinelForMissingDistance ==
    (est_pc \in {"ranked", "done"} /\ ~fec_coordinates.none) =>
        \A i \in 1..Len(df_ranked) :
            Unresolved(df_ranked[i]) =>
                /\ df_ranked[i].geo_distance = Float(INFINITE_DISTANCE)
                /\ \A j \in 1..Len(df_ranked) :
                      /\ df_ranked[j].COMPAUXLIB = df_ranked[i].COMPAUXLIB
                      /\ df_ranked[j].jaccard_distance_unfiltered
                            = df_ranked[i].jaccard_distance_unfiltered
                      /\ ~Unresolved(df_ranked[j])
                      /\ fec_coordinates.value # <<>>
                      => df_ranked[j].final_rank < df_ranked[i].final_rank

-----------------------------------------------------------------------------
(* Claims on the discard table *)

\* the occurrences of a token among the tokens that survived the tokenizer
Occurrences(t) ==
    Cardinality({i \in 1..Len(df_entity_token) : df_entity_token[i].token = t})

TokensToRank == Range(Column(df_entity_token, "token"))

\* the frequency of t reaches the q-quantile (q in 1/10000) of the frequencies of the
\* surviving tokens, as an order statistic: among the n frequencies sorted ascending,
\* those at or below that of t reach beyond the place q * (n - 1)
ReachesQuantile(t, q) ==
    (Cardinality({u \in TokensToRank : Occurrences(u) <= Occurrences(t)}) - 1) * 10000
        >= q * (Cardinality(TokensToRank) - 1)

\* C22: with method 'quantile' and a threshold in [0, 1], the discard table is exactly
\* the set of surviving tokens whose frequency (occurrences over the total of
\* occurrences) is at or above the threshold-quantile of the frequencies, each token
\* once, with that frequency.
C22_QuantileDiscardTable ==
    (filter_pc = "returned" /\ filter_method = "quantile") =>
        /\ filter_threshold.value \in 0..10000
        /\ Range(Column(discarded_table, "token"))
              = {t \in TokensToRank : ReachesQuantile(t, filter_threshold.value)}
        /\ \A i, j \in 1..Len(discarded_table) :
              discarded_table[i].token = discarded_table[j].token => i = j
        /\ \A i \in 1..Len(discarded_table) :
              /\ discarded_table[i].frequency.count = Occurrences(discarded_table[i].token)
              /\ discarded_table[i].frequency.sum = Len(df_entity_token)

\* a quantile strictly inside the distribution that parts the tokens
C22_Witness ==
    /\ filter_pc = "returned" /\ filter_method = "quantile"
    /\ filter_threshold.value \in {5000, 9999}
    /\ discarded_table # <<>>
    /\ \E t \in TokensToRank : t \notin Range(Column(discarded_table, "token"))
    /\ \E i \in 1..Len(discarded_table) : discarded_table[i].frequency.count >= 2

-----------------------------------------------------------------------------
(* Claims on the construction *)

\* C23: an Estimator given something that is not a DataFrame raises TypeError,
\* given a DataFrame without one of the four shingled columns raises
\* ValueError, and an LSH processor given something that is not a DataFrame
\* raises TypeError; by then no slot of the object is assigned and run is not called
C23_ValidationFailsFirst ==
    cons_pc \notin {"idle", "new"} =>
        /\ cons_value.type # "DataFrame" =>
               cons_pc = "TypeError" /\ cons_slots = {}
        /\ ( /\ cons_class = "Estimator"
             /\ cons_value.type = "DataFrame"
             /\ ~(Range(ShingledColumns) \subseteq cons_value.columns) ) =>
               cons_pc = "ValueError" /\ cons_slots = {}

C23_Witness ==
    /\ cons_class = "Estimator" /\ cons_pc = "ValueError" /\ cons_slots = {}
    /\ Cardinality(Range(ShingledColumns) \cap cons_value.columns) = 3

-----------------------------------------------------------------------------
(* Claims on the exact matches *)

\* C24: every candidate whose unfiltered Jaccard distance to the label of its query
\* entity is 0 is in the result of Estimator.run and marked validated, whatever the
\* limit and the other rows of the batch.
C24_ExactMatchValidated ==
    est_pc = "done" =>
        \A r \in 1..Len(df_ranked) :
            df_ranked[r].jaccard_distance_unfiltered = 0
            => \E i \in KeptAs(df_ranked[r]) : estimator_input_df[i].validated

-----------------------------------------------------------------------------
(* Claims on the independence of the query entities *)

\* the results Estimator.run can return for the input frame df
RunOn(df) ==
    LET unite_legale == PreparedUniteLegale(df)
        etablissement == PreparedEtablissement(df, unite_legale.siret_to_discard)
        ranked == Ranked(Concatenated(unite_legale.df_fec_unite_legale, etablissement))
    IN  {Validated(sorted) : sorted \in SortedByFinalRank(ranked, 1..Len(ranked))}

\* C26: the rows Estimator.run returns for a query entity (candidates, final_rank,
\* validated) are those it returns when the batch holds the rows of that entity only:
\* the other query entities of the batch have no effect on them.
C26_PerQueryIndependence ==
    est_pc = "done" =>
        \A q \in Entities(df_fec_w_candidates) :
            RowsOf(estimator_input_df, q) \in RunOn(RowsOf(df_fec_w_candidates, q))

-----------------------------------------------------------------------------
(* Claims on the artifacts of a training run *)

\* C27: whenever a training invocation has ended with exit status 0, after any
\* sequence of earlier invocations, aborted ones included, and also when it skipped
\* the work because the lsh-index table exists, the discard-token table, the lsh-index
\* table, the LSH metadata and the LSH hashtables all exist.
C27_TrainedMeansComplete ==
    (task = "train" /\ pc = "exit0") =>
        ({"discarded_token"} \cup IndexArtifacts) \subseteq files

-----------------------------------------------------------------------------
(* Claims on the alignment of rows, signatures and indexes *)

\* the signature of the chain of filtered shingles of a row of the lsh-index table
SignatureOf(row) ==
    MinHash(SplitOn(row.shingled_filtered, ",", <<>>), config.minhash_num_permutations)

\* C28: in a training run two entities have the same lsh_index if and only if their
\* chains of filtered shingles are the same, and each lsh_index other than -1 is
\* inserted into the index once, with the signature of the filtered shingles of an
\* entity that carries it.
C28_IndexAlignment ==
    (task = "train" /\ pc \in {"update", "store_metadata", "store_hashtables"}) =>
        /\ \A i, j \in 1..Len(df_siren_preprocessed) :
              df_siren_preprocessed[i].lsh_index = df_siren_preprocessed[j].lsh_index
              <=> df_siren_preprocessed[i].shingled_filtered
                      = df_siren_preprocessed[j].shingled_filtered
        /\ \A n \in 1..Len(inserted) :
              /\ inserted[n].index # -1
              /\ \E i \in 1..Len(df_siren_preprocessed) :
                    /\ df_siren_preprocessed[i].lsh_index = inserted[n].index
                    /\ inserted[n].minhash = SignatureOf(df_siren_preprocessed[i])
              /\ \A m \in 1..Len(inserted) : inserted[m].index = inserted[n].index => m = n
        /\ pc # "update" =>
              {inserted[n].index : n \in 1..Len(inserted)}
                  = {df_siren_preprocessed[i].lsh_index :
                        i \in 1..Len(df_siren_preprocessed)} \ {-1}

\* two entities with one chain of filtered shingles, inserted once under their lsh_index
C28_Witness ==
    /\ task = "train" /\ pc = "store_metadata"
    /\ Len(inserted) = 1
    /\ \E i, j \in 1..Len(df_siren_preprocessed) :
          /\ i # j
          /\ df_siren_preprocessed[i].lsh_index = inserted[1].index
          /\ df_siren_preprocessed[j].lsh_index = inserted[1].index
          /\ inserted[1].minhash = SignatureOf(df_siren_preprocessed[j])

-----------------------------------------------------------------------------
(* Claims on the exported hashtables *)

\* the ids a row of the exported table lists, in the order of the list
ListedIds(row) ==
    LET ids == SplitOn(row.candidates, ",", <<>>)
    IN  [j \in 1..Len(ids) |-> ParseInt(ids[j])]

\* the bytes of band i (from 1) of the signature of the n-th insert
SliceOfInsert(n, i) ==
    _H(Slice(inserted[n].minhash, lsh.hashranges[i][1], lsh.hashranges[i][2]))

\* C29: after prepare_data_to_store the exported table has one row for each
\* (band, slice) that some insert fell in and no two rows with one (band, slice); the
\* candidates of a row are the ids inserted with that slice in that band, each once;
\* every inserted id is in one row of each band.
C29_ExportedBuckets ==
    (task = "train" /\ pc \in {"store_metadata", "store_hashtables"}) =>
        /\ \A i, j \in 1..Len(lsh.hashtable_df) :
              /\ lsh.hashtable_df[i].bucket = lsh.hashtable_df[j].bucket
              /\ lsh.hashtable_df[i].signatures = lsh.hashtable_df[j].signatures
              => i = j
        /\ \A i \in 1..Len(lsh.hashtable_df) :
              /\ lsh.hashtable_df[i].bucket \in 0..(lsh.b - 1)
              /\ Range(ListedIds(lsh.hashtable_df[i]))
                    = {inserted[n].index : n \in
                          {m \in 1..Len(inserted) :
                              SliceOfInsert(m, lsh.hashtable_df[i].bucket + 1)
                                  = lsh.hashtable_df[i].signatures}}
              /\ Range(ListedIds(lsh.hashtable_df[i])) # {}
              /\ Len(ListedIds(lsh.hashtable_df[i]))
                    = Cardinality(Range(ListedIds(lsh.hashtable_df[i])))
        /\ \A n \in 1..Len(inserted) : \A band \in 1..lsh.b :
              /\ \E i \in 1..Len(lsh.hashtable_df) :
                    /\ lsh.hashtable_df[i].bucket = band - 1
                    /\ lsh.hashtable_df[i].signatures = SliceOfInsert(n, band)
              /\ Cardinality({i \in 1..Len(lsh.hashtable_df) :
                                 /\ lsh.hashtable_df[i].bucket = band - 1
                                 /\ inserted[n].index \in Range(ListedIds(lsh.hashtable_df[i]))})
                    = 1

\* two ids exported in one row of a band and in two rows of another
C29_Witness ==
    /\ task = "train" /\ pc = "store_metadata"
    /\ \E i \in 1..Len(lsh.hashtable_df) : Len(ListedIds(lsh.hashtable_df[i])) = 2
    /\ \E i \in 1..Len(lsh.hashtable_df) :
          /\ Len(ListedIds(lsh.hashtable_df[i])) = 1
          /\ Len(inserted) = 2

-----------------------------------------------------------------------------
(* Claims on the limit *)

====
